---- MODULE Spec2Model ----
(***************************************************************************)
(* A model of the block engine of django-streamfield-w: the base Block,    *)
(* the declarative metaclass, ListBlock, the leaf field blocks and the     *)
(* StreamField / ListField model fields.                                   *)
(*                                                                         *)
(* Python values are tagged tuples, the tag first:                         *)
(*   <<"None">>                    None                                    *)
(*   <<"str", cs>>                 str, cs a sequence of one-char strings  *)
(*   <<"safe", cs>>                django SafeString                       *)
(*   <<"int", n>>                  int                                     *)
(*   <<"list", xs>>                list / tuple                            *)
(*   <<"date", y, m, d>>           datetime.date                           *)
(*   <<"time", h, m, s>>           datetime.time                           *)
(*   <<"datetime", y, m, d, h, mi, s>>  datetime.datetime                  *)
(*   <<"entity", pk>>              a model instance                        *)
(*   <<"ListValue", xs>>           streamfield ListValue                   *)
(*   <<"StreamValue", pairs, raw>> streamfield StreamValue                 *)
(* The outcome of a call is <<"ok", value>> or <<"raise", exception, p>>.  *)
(***************************************************************************)
EXTENDS Integers, Sequences, FiniteSets, TLC

VARIABLES
    op,                \* the operation that ran last
    arg,               \* its input
    res,               \* its outcome
    block,             \* the block / field definition under use
    db,                \* primary keys of the rows of the target model
    creation_counter,  \* Block.creation_counter (process wide)
    blocks,            \* the block definitions constructed so far
    classes            \* the container classes declared so far

vars == <<op, arg, res, block, db, creation_counter, blocks, classes>>

----------------------------------------------------------------------------
(* Bounds *)

MaxCount == 3        \* positions of a submitted list form
MaxListLen == 3      \* elements of a list value

----------------------------------------------------------------------------
(* Python values *)

None == <<"None">>
Str(cs) == <<"str", cs>>
Safe(cs) == <<"safe", cs>>
IntV(n) == <<"int", n>>
List(xs) == <<"list", xs>>
Ok(v) == <<"ok", v>>
Raise(e, p) == <<"raise", e, p>>

Tag(v) == v[1]
IsOk(r) == r[1] = "ok"
IsRaise(r, e) == r[1] = "raise" /\ r[2] = e
Val(r) == r[2]

IsText(v) == Tag(v) \in {"str", "safe"}

\* SafeString subclasses str: it compares and orders by its characters.
PyEq(a, b) ==
    IF IsText(a) /\ IsText(b) THEN a[2] = b[2]
    ELSE Tag(a) = Tag(b) /\ a = b

Digits == <<"0", "1", "2", "3", "4", "5", "6", "7", "8", "9">>
IsDigit(c) == \E i \in 1..10 : Digits[i] = c
DigitVal(c) == (CHOOSE i \in 1..10 : Digits[i] = c) - 1

\* code points of the characters the model uses
Chars == <<" ", "\"", ",", "-", "0", "1", "2", "3", "4", "5", "6", "7", "8",
           "9", ":", "A", "B", "C", "N", "T", "[", "]", "a", "c", "d", "e",
           "l", "n", "o", "u", "x">>
ord(c) == CHOOSE i \in 1..Len(Chars) : Chars[i] = c

RECURSIVE DigitsVal(_)
DigitsVal(cs) ==
    IF cs = <<>> THEN 0
    ELSE 10 * DigitsVal(SubSeq(cs, 1, Len(cs) - 1)) + DigitVal(cs[Len(cs)])

AllDigits(cs) == cs # <<>> /\ \A i \in 1..Len(cs) : IsDigit(cs[i])

\* int(text): decimal digits with an optional sign, else ValueError
PyInt(cs) ==
    IF AllDigits(cs) THEN Ok(DigitsVal(cs))
    ELSE IF cs # <<>> /\ cs[1] = "-" /\ AllDigits(Tail(cs))
         THEN Ok(0 - DigitsVal(Tail(cs)))
    ELSE Raise("ValueError", None)

\* str < str: lexicographic by code point
RECURSIVE StrLess(_, _)
StrLess(a, b) ==
    IF b = <<>> THEN FALSE
    ELSE IF a = <<>> THEN TRUE
    ELSE IF a[1] = b[1] THEN StrLess(Tail(a), Tail(b))
    ELSE ord(a[1]) < ord(b[1])

\* truth value of a Python object
Truthy(v) ==
    CASE Tag(v) = "None" -> FALSE
      [] Tag(v) \in {"str", "safe", "list", "ListValue"} -> v[2] # <<>>
      [] Tag(v) = "int" -> v[2] # 0
      [] Tag(v) = "StreamValue" -> v[2] # <<>>
      [] OTHER -> TRUE

SeqMap(F(_), xs) == [i \in 1..Len(xs) |-> F(xs[i])]

\* the elements of a list, tuple or ListValue, in iteration order
Items(v) == v[2]
IsSequence(v) == Tag(v) \in {"list", "ListValue", "StreamValue"}

\* str.strip()
RECURSIVE LStrip(_)
LStrip(cs) == IF cs # <<>> /\ cs[1] = " " THEN LStrip(Tail(cs)) ELSE cs
RECURSIVE RStrip(_)
RStrip(cs) ==
    IF cs # <<>> /\ cs[Len(cs)] = " " THEN RStrip(SubSeq(cs, 1, Len(cs) - 1))
    ELSE cs
Strip(cs) == RStrip(LStrip(cs))

\* str(value) and mark_safe(value) on text and None
PyStr(v) ==
    CASE Tag(v) = "None" -> Str(<<"N", "o", "n", "e">>)
      [] IsText(v) -> Str(v[2])
      [] OTHER -> v
mark_safe(v) ==
    CASE Tag(v) = "None" -> Safe(<<"N", "o", "n", "e">>)
      [] IsText(v) -> Safe(v[2])
      [] OTHER -> v

----------------------------------------------------------------------------
(* django.forms.CharField, as the leaf blocks configure it *)

\* Field.empty_values: None, '', [], (), {}
InEmptyValues(v) ==
    \/ Tag(v) = "None"
    \/ IsText(v) /\ v[2] = <<>>
    \/ Tag(v) = "list" /\ v[2] = <<>>

\* CharField.clean: to_python (str, strip, empty -> ''), validate
\* (required), run_validators (max_length; 0 stands for None)
CharField_clean(required, max_length, value) ==
    LET py == IF InEmptyValues(value) THEN Str(<<>>)
              ELSE LET st == Str(Strip(PyStr(value)[2]))
                   IN  IF InEmptyValues(st) THEN Str(<<>>) ELSE st
    IN  IF InEmptyValues(py) /\ required
            THEN Raise("ValidationError", <<"code", "required">>)
        ELSE IF ~InEmptyValues(py) /\ max_length # 0 /\ Len(py[2]) > max_length
            THEN Raise("ValidationError", <<"code", "max_length">>)
        ELSE Ok(py)

----------------------------------------------------------------------------
(* Leaf field blocks.  A leaf block definition is a record                 *)
(*   [kind, required, max_length, default]                                 *)
(* default being meta.default (FieldBlock.Meta sets it to None).           *)

CharFamily == {"CharBlock", "TextBlock", "RawHTMLBlock"}

FieldBlock_init(kind, required, max_length) ==
    [kind |-> kind, required |-> required, max_length |-> max_length,
     default |-> None]

\* FieldBlock.value_for_form, overridden by RawHTMLBlock (str(value) + '')
FieldBlock_value_for_form(b, value) ==
    IF b.kind = "RawHTMLBlock" THEN PyStr(value) ELSE value

\* FieldBlock.value_from_form, overridden by RawHTMLBlock (mark_safe)
FieldBlock_value_from_form(b, value) ==
    IF b.kind = "RawHTMLBlock" THEN mark_safe(value) ELSE value

FieldBlock_clean_unvalidated(b, value) ==
    Ok(FieldBlock_value_from_form(b, FieldBlock_value_for_form(b, value)))
\* FieldBlock.clean: value_from_form(field.clean(value_for_form(value))).
\* The base FieldBlock declares no field (its guard in __init__ is
\* commented out), so on a block of kind "FieldBlock" the lookup of
\* self.field raises AttributeError before anything is validated.
FieldBlock_clean(b, value) ==
    IF b.kind = "FieldBlock"
        THEN Raise("AttributeError", <<"attr", "field">>)
    ELSE
    LET r == CharField_clean(b.required, b.max_length,
                             FieldBlock_value_for_form(b, value))
    IN  IF IsOk(r) THEN Ok(FieldBlock_value_from_form(b, Val(r))) ELSE r

\* FieldBlock.value_from_datadict: the widget reads data.get(name)
FieldBlock_value_from_datadict(b, submitted) ==
    FieldBlock_value_from_form(b, submitted)

FieldBlock_get_default_unmarked(b) == b.default
\* Block.get_default, overridden by RawHTMLBlock
FieldBlock_get_default(b) ==
    IF b.kind = "RawHTMLBlock"
        THEN mark_safe(IF Truthy(b.default) THEN b.default ELSE Str(<<>>))
    ELSE b.default

----------------------------------------------------------------------------
(* django.utils.dateparse on texts without fractions and time zones *)

\* the parts of a text between occurrences of the separator
RECURSIVE Split(_, _)
Split(cs, sep) ==
    IF \A i \in 1..Len(cs) : cs[i] # sep THEN <<cs>>
    ELSE LET k == CHOOSE i \in 1..Len(cs) :
                      cs[i] = sep /\ \A j \in 1..(i - 1) : cs[j] # sep
         IN  <<SubSeq(cs, 1, k - 1)>> \o Split(SubSeq(cs, k + 1, Len(cs)), sep)

DigitRun(cs, lo, hi) == AllDigits(cs) /\ Len(cs) >= lo /\ Len(cs) <= hi

IsLeap(y) == (y % 4 = 0 /\ y % 100 # 0) \/ y % 400 = 0
DaysIn(y, m) ==
    IF m = 2 THEN (IF IsLeap(y) THEN 29 ELSE 28)
    ELSE IF m \in {4, 6, 9, 11} THEN 30 ELSE 31

\* date_re is (\d{4})-(\d{1,2})-(\d{1,2})$; no match gives None, a match
\* outside the calendar makes datetime.date raise ValueError
parse_date(cs) ==
    LET ps == Split(cs, "-")
    IN  IF Len(ps) = 3 /\ DigitRun(ps[1], 4, 4) /\ DigitRun(ps[2], 1, 2)
           /\ DigitRun(ps[3], 1, 2)
        THEN LET y == DigitsVal(ps[1])
                 m == DigitsVal(ps[2])
                 d == DigitsVal(ps[3])
             IN  IF y >= 1 /\ m >= 1 /\ m <= 12 /\ d >= 1 /\ d <= DaysIn(y, m)
                     THEN Ok(<<"date", y, m, d>>)
                 ELSE Raise("ValueError", None)
        ELSE Ok(None)

\* time_re is (\d{1,2}):(\d{1,2})(:(\d{1,2}))?$
parse_time(cs) ==
    LET ps == Split(cs, ":")
    IN  IF Len(ps) \in {2, 3} /\ \A i \in 1..Len(ps) : DigitRun(ps[i], 1, 2)
        THEN LET h == DigitsVal(ps[1])
                 mi == DigitsVal(ps[2])
                 sec == IF Len(ps) = 3 THEN DigitsVal(ps[3]) ELSE 0
             IN  IF h <= 23 /\ mi <= 59 /\ sec <= 59
                     THEN Ok(<<"time", h, mi, sec>>)
                 ELSE Raise("ValueError", None)
        ELSE Ok(None)

\* datetime_re is the date, 'T' or a space, and the time
parse_datetime(cs) ==
    LET seps == {i \in 1..Len(cs) : cs[i] \in {"T", " "}}
    IN  IF Cardinality(seps) # 1 THEN Ok(None)
        ELSE LET k == CHOOSE i \in seps : TRUE
                 d == parse_date(SubSeq(cs, 1, k - 1))
                 t == parse_time(SubSeq(cs, k + 1, Len(cs)))
             IN  IF (IsOk(d) /\ Val(d) = None) \/ (IsOk(t) /\ Val(t) = None)
                     THEN Ok(None)
                 ELSE IF ~IsOk(d) THEN d
                 ELSE IF ~IsOk(t) THEN t
                 ELSE Ok(<<"datetime", Val(d)[2], Val(d)[3], Val(d)[4],
                           Val(t)[2], Val(t)[3], Val(t)[4]>>)

\* the parsers take text; anything else fails in the regular expression
ParseText(P(_), value) ==
    IF IsText(value) THEN P(value[2]) ELSE Raise("TypeError", None)

----------------------------------------------------------------------------
(* json.dumps(value, cls=DjangoJSONEncoder) and json.loads(text).  The      *)
(* texts of the model hold no backslash, no control character and no       *)
(* fraction or exponent, so strings need no escapes and numbers are        *)
(* integers.                                                               *)

Pad2(n) == <<Digits[(n \div 10) + 1], Digits[(n % 10) + 1]>>
Pad4(n) == Pad2(n \div 100) \o Pad2(n % 100)

\* date.isoformat(), time.isoformat(), datetime.isoformat()
IsoDate(y, m, d) == Pad4(y) \o <<"-">> \o Pad2(m) \o <<"-">> \o Pad2(d)
IsoTime(h, mi, sec) == Pad2(h) \o <<":">> \o Pad2(mi) \o <<":">> \o Pad2(sec)

Quote(cs) == <<"\"">> \o cs \o <<"\"">>

RECURSIVE NatText(_)
NatText(n) ==
    IF n < 10 THEN <<Digits[n + 1]>>
    ELSE Append(NatText(n \div 10), Digits[(n % 10) + 1])

\* the encoder's text of a value it can serialise
RECURSIVE JsonText(_)
JsonText(v) ==
    CASE Tag(v) = "None" -> <<"n", "u", "l", "l">>
      [] IsText(v) -> Quote(v[2])
      [] Tag(v) = "int" ->
            IF v[2] < 0 THEN <<"-">> \o NatText(0 - v[2]) ELSE NatText(v[2])
      [] Tag(v) = "date" -> Quote(IsoDate(v[2], v[3], v[4]))
      [] Tag(v) = "time" -> Quote(IsoTime(v[2], v[3], v[4]))
      [] Tag(v) = "datetime" ->
            Quote(IsoDate(v[2], v[3], v[4]) \o <<"T">>
                  \o IsoTime(v[5], v[6], v[7]))
      [] Tag(v) \in {"list", "ListValue"} ->
            LET RECURSIVE Join(_)
                Join(xs) ==
                    IF xs = <<>> THEN <<>>
                    ELSE IF Len(xs) = 1 THEN JsonText(xs[1])
                    ELSE JsonText(xs[1]) \o <<",", " ">> \o Join(Tail(xs))
            IN  <<"[">> \o Join(v[2]) \o <<"]">>

RECURSIVE Serialisable(_)
Serialisable(v) ==
    CASE Tag(v) \in {"None", "str", "safe", "int", "date", "time", "datetime"}
            -> TRUE
      [] Tag(v) = "list" ->
            \A i \in 1..Len(v[2]) : Serialisable(v[2][i])
      [] OTHER -> FALSE

\* json.dumps: an object the encoder does not know is a TypeError
json_dumps(v) ==
    IF Serialisable(v) THEN Ok(Str(JsonText(v))) ELSE Raise("TypeError", None)

\* the decoder: a parse step yields <<"ok", value, next position>> or
\* <<"err">>
SkipWs(cs, p) ==
    IF \E q \in p..Len(cs) : cs[q] # " "
        THEN CHOOSE q \in p..Len(cs) :
                 cs[q] # " " /\ \A r \in p..(q - 1) : cs[r] = " "
    ELSE Len(cs) + 1

HasAt(cs, p, word) ==
    /\ p + Len(word) - 1 <= Len(cs)
    /\ SubSeq(cs, p, p + Len(word) - 1) = word

\* the end of the digit run that starts at p
DigitsEnd(cs, p) ==
    IF \E q \in p..Len(cs) : ~IsDigit(cs[q])
        THEN (CHOOSE q \in p..Len(cs) :
                  ~IsDigit(cs[q]) /\ \A r \in p..(q - 1) : IsDigit(cs[r])) - 1
    ELSE Len(cs)

\* -?(0|[1-9][0-9]*)
ParseNumber(cs, p) ==
    LET neg == cs[p] = "-"
        q == IF neg THEN p + 1 ELSE p
    IN  IF q > Len(cs) \/ ~IsDigit(cs[q]) THEN <<"err">>
        ELSE LET e == IF cs[q] = "0" THEN q ELSE DigitsEnd(cs, q)
                 n == DigitsVal(SubSeq(cs, q, e))
             IN  <<"ok", IntV(IF neg THEN 0 - n ELSE n), e + 1>>

ParseString(cs, p) ==
    IF \E q \in (p + 1)..Len(cs) : cs[q] = "\""
        THEN LET q == CHOOSE q \in (p + 1)..Len(cs) :
                          cs[q] = "\"" /\ \A r \in (p + 1)..(q - 1) : cs[r] # "\""
             IN  <<"ok", Str(SubSeq(cs, p + 1, q - 1)), q + 1>>
    ELSE <<"err">>

RECURSIVE ParseValue(_, _), ParseItems(_, _, _)
\* a value starting at p (white space skipped by the caller)
ParseValue(cs, p) ==
    IF p > Len(cs) THEN <<"err">>
    ELSE CASE cs[p] = "\"" -> ParseString(cs, p)
           [] cs[p] = "[" ->
                LET q == SkipWs(cs, p + 1)
                IN  IF q <= Len(cs) /\ cs[q] = "]"
                        THEN <<"ok", List(<<>>), q + 1>>
                    ELSE ParseItems(cs, q, <<>>)
           [] cs[p] = "n" ->
                IF HasAt(cs, p, <<"n", "u", "l", "l">>)
                    THEN <<"ok", None, p + 4>> ELSE <<"err">>
           [] cs[p] = "N" ->
                IF HasAt(cs, p, <<"N", "a", "N">>)
                    THEN <<"ok", <<"float", "nan">>, p + 3>> ELSE <<"err">>
           [] cs[p] = "-" \/ IsDigit(cs[p]) -> ParseNumber(cs, p)
           [] OTHER -> <<"err">>
\* the items of an array from p on, up to the closing bracket
ParseItems(cs, p, acc) ==
    LET v == ParseValue(cs, p)
    IN  IF v[1] = "err" THEN v
        ELSE LET q == SkipWs(cs, v[3])
             IN  IF q > Len(cs) THEN <<"err">>
                 ELSE IF cs[q] = "]"
                     THEN <<"ok", List(Append(acc, v[2])), q + 1>>
                 ELSE IF cs[q] = ","
                     THEN ParseItems(cs, SkipWs(cs, q + 1), Append(acc, v[2]))
                 ELSE <<"err">>

\* json.loads: one value, white space around it, nothing else;
\* JSONDecodeError is a ValueError
json_loads(cs) ==
    LET v == ParseValue(cs, SkipWs(cs, 1))
    IN  IF v[1] = "ok" /\ SkipWs(cs, v[3]) > Len(cs) THEN Ok(v[2])
        ELSE Raise("ValueError", None)

----------------------------------------------------------------------------
(* The rows of the target model of a reference block *)

Entity(pk) == <<"entity", pk>>

\* target_model.objects.get(pk=value) on an integer primary key: a number
\* or a text of digits is looked up, anything else is refused by the
\* field's int() conversion
objects_get(rows, value) ==
    LET key == CASE Tag(value) = "int" -> Ok(value[2])
                 [] IsText(value) -> PyInt(value[2])
                 [] OTHER -> Raise("TypeError", None)
    IN  IF ~IsOk(key) THEN key
        ELSE IF Val(key) \in rows THEN Ok(Entity(Val(key)))
        ELSE Raise("DoesNotExist", None)

----------------------------------------------------------------------------
(* to_python and get_prep_value of the leaf blocks *)

\* ModelChoiceBlock.to_python
ModelChoiceBlock_to_python(rows, value) ==
    IF value = None THEN Ok(value)
    ELSE LET r == objects_get(rows, value)
         IN  IF IsRaise(r, "DoesNotExist") THEN Ok(None) ELSE r

\* ModelChoiceBlock.get_prep_value: value.pk
ModelChoiceBlock_get_prep_value(value) ==
    IF value = None THEN Ok(None)
    ELSE IF Tag(value) = "entity" THEN Ok(IntV(value[2]))
    ELSE Raise("AttributeError", None)

\* DateBlock.to_python; a datetime is a date as well
DateBlock_to_python(value) ==
    IF value = None \/ Tag(value) \in {"date", "datetime"} THEN Ok(value)
    ELSE ParseText(parse_date, value)

\* TimeBlock.to_python
TimeBlock_to_python(value) ==
    IF value = None \/ Tag(value) = "time" THEN Ok(value)
    ELSE ParseText(parse_time, value)

\* DateTimeBlock.to_python
DateTimeBlock_to_python(value) ==
    IF value = None \/ Tag(value) = "datetime" THEN Ok(value)
    ELSE ParseText(parse_datetime, value)

\* RawHTMLBlock.to_python
RawHTMLBlock_to_python(value) == Ok(mark_safe(value))

\* RawHTMLBlock.get_prep_value: str(value) + ''
RawHTMLBlock_get_prep_value(value) ==
    IF Tag(value) \in {"None", "str", "safe"} THEN Ok(PyStr(value))
    ELSE Raise("TypeError", None)

\* to_python of a leaf block, by its class
FieldBlock_to_python(b, rows, value) ==
    CASE b.kind = "RawHTMLBlock" -> RawHTMLBlock_to_python(value)
      [] b.kind = "DateBlock" -> DateBlock_to_python(value)
      [] b.kind = "TimeBlock" -> TimeBlock_to_python(value)
      [] b.kind = "DateTimeBlock" -> DateTimeBlock_to_python(value)
      [] b.kind = "ModelChoiceBlock" -> ModelChoiceBlock_to_python(rows, value)
      [] OTHER -> Ok(value)

\* get_prep_value of a leaf block, by its class
FieldBlock_get_prep_value(b, value) ==
    CASE b.kind = "RawHTMLBlock" -> RawHTMLBlock_get_prep_value(value)
      [] b.kind = "ModelChoiceBlock" -> ModelChoiceBlock_get_prep_value(value)
      [] OTHER -> Ok(value)

----------------------------------------------------------------------------
(* ListBlock.  A list block definition is a record [child, default], with  *)
(* default the meta.default left by __init__.                              *)

Unset == <<"unset">>

\* ListBlock.__init__: without a configured default, meta.default is a
\* list holding the child's default
ListBlock_init(child_block, default_kw) ==
    [child |-> child_block,
     default |-> IF default_kw = Unset
                     THEN List(<<IF "child" \in DOMAIN child_block
                                     THEN child_block.default
                                 ELSE FieldBlock_get_default(child_block)>>)
                 ELSE default_kw]

ListBlock_get_default(b) == b.default

\* tuple comparison (order, value) < (order, value) as list.sort() uses it
TupleLess(a, b) ==
    \/ a[1] < b[1]
    \/ a[1] = b[1] /\ ~PyEq(a[2], b[2]) /\ IsText(a[2]) /\ IsText(b[2])
        /\ StrLess(a[2][2], b[2][2])

\* Two tuples with the same order fall back on comparing their values, and
\* '<' between values that differ and are not both text is a TypeError.  A
\* sort has to compare some such pair of a tie group directly.
SortRaises(ts) ==
    \E i, j \in 1..Len(ts) :
        /\ i < j
        /\ ts[i][1] = ts[j][1]
        /\ ~PyEq(ts[i][2], ts[j][2])
        /\ ~(IsText(ts[i][2]) /\ IsText(ts[j][2]))

\* stable insertion: x goes behind every element that is not greater
RECURSIVE InsertSorted(_, _)
InsertSorted(x, ts) ==
    IF ts = <<>> THEN <<x>>
    ELSE IF TupleLess(x, ts[Len(ts)])
        THEN Append(InsertSorted(x, SubSeq(ts, 1, Len(ts) - 1)), ts[Len(ts)])
    ELSE Append(ts, x)

RECURSIVE SortTuples(_)
SortTuples(ts) ==
    IF ts = <<>> THEN <<>>
    ELSE InsertSorted(ts[Len(ts)], SortTuples(SubSeq(ts, 1, Len(ts) - 1)))

\* the loop of value_from_datadict over positions i .. count-1; data is
\* <<count text, entries>>, an entry <<order text, deleted text, value>>
RECURSIVE CollectEntries(_, _, _, _, _)
CollectEntries(b, entries, i, count, acc) ==
    IF i > count THEN Ok(acc)
    ELSE IF i > Len(entries) THEN Raise("KeyError", None)
    ELSE IF Truthy(Str(entries[i][2]))
        THEN CollectEntries(b, entries, i + 1, count, acc)
    ELSE LET o == PyInt(entries[i][1])
         IN  IF ~IsOk(o) THEN o
             ELSE CollectEntries(b, entries, i + 1, count,
                      Append(acc, <<Val(o),
                          FieldBlock_value_from_datadict(b.child, entries[i][3])>>))

ListBlock_value_from_datadict_unsorted(b, data) ==
    LET count == PyInt(data[1])
    IN  IF ~IsOk(count) THEN count
        ELSE LET c == CollectEntries(b, data[2], 1, Val(count), <<>>)
             IN  IF ~IsOk(c) THEN c
                 ELSE Ok(List(SeqMap(LAMBDA t : t[2], Val(c))))
\* ListBlock.value_from_datadict
ListBlock_value_from_datadict(b, data) ==
    LET count == PyInt(data[1])
    IN  IF ~IsOk(count) THEN count
        ELSE LET c == CollectEntries(b, data[2], 1, Val(count), <<>>)
             IN  IF ~IsOk(c) THEN c
                 ELSE IF SortRaises(Val(c)) THEN Raise("TypeError", None)
                 ELSE Ok(List(SeqMap(LAMBDA t : t[2], SortTuples(Val(c)))))

\* the child's clean: a list block's own clean when the child is a list,
\* the leaf's otherwise
RECURSIVE ListBlock_clean(_, _)
Block_clean(b, x) ==
    IF "child" \in DOMAIN b THEN ListBlock_clean(b, x)
    ELSE FieldBlock_clean(b, x)

\* the loop of ListBlock.clean: one outcome of the child's clean per element
CleanEach(b, xs) == SeqMap(LAMBDA x : Block_clean(b.child, x), xs)

ErrorList(e) == <<"ErrorList", e[3]>>

ListBlock_clean_first_error(b, value) ==
    LET rs == CleanEach(b, Items(value))
        bad == {i \in 1..Len(rs) : ~IsOk(rs[i])}
    IN  IF bad = {} THEN Ok(List(SeqMap(Val, rs)))
        ELSE LET f == CHOOSE i \in bad : \A j \in bad : i <= j
             IN  Raise("ValidationError",
                       <<"params", [i \in 1..f |->
                           IF i = f THEN ErrorList(rs[i]) ELSE None]>>)
ListBlock_clean_catch_all(b, value) ==
    IF ~IsSequence(value) THEN Raise("TypeError", None)
    ELSE
    LET rs == CleanEach(b, Items(value))
        errors == [i \in 1..Len(rs) |->
                      IF IsOk(rs[i]) THEN None
                      ELSE <<"ErrorList", rs[i][3]>>]
    IN  IF \E i \in 1..Len(errors) : errors[i] # None
            THEN Raise("ValidationError", <<"params", errors>>)
        ELSE Ok(List(SeqMap(Val, rs)))
\* ListBlock.clean: a ValidationError of the child becomes ErrorList([e])
\* at its position, a pass becomes None; any(errors) raises once
ListBlock_clean(b, value) ==
    IF ~IsSequence(value) THEN Raise("TypeError", None)
    ELSE
    LET rs == CleanEach(b, Items(value))
        other == {i \in 1..Len(rs) :
                     ~IsOk(rs[i]) /\ ~IsRaise(rs[i], "ValidationError")}
        errors == [i \in 1..Len(rs) |->
                      IF IsRaise(rs[i], "ValidationError")
                          THEN ErrorList(rs[i]) ELSE None]
    IN  IF other # {} THEN rs[CHOOSE i \in other : \A j \in other : i <= j]
        ELSE IF \E i \in 1..Len(errors) : errors[i] # None
            THEN Raise("ValidationError", <<"params", errors>>)
        ELSE Ok(List(SeqMap(Val, rs)))

\* what a for loop over a value visits: the elements of a sequence, the
\* characters of a text; other values are not iterable
Iterate(value) ==
    CASE Tag(value) \in {"list", "ListValue"} -> Ok(value[2])
      [] IsText(value) -> Ok([i \in 1..Len(value[2]) |-> Str(<<value[2][i]>>)])
      [] OTHER -> Raise("TypeError", None)

\* a call on the value of an outcome; an exception passes through
Then(r, F(_)) == IF IsOk(r) THEN F(Val(r)) ELSE r

\* a comprehension over outcomes: the first exception leaves it
Collect(rs) ==
    LET bad == {i \in 1..Len(rs) : ~IsOk(rs[i])}
    IN  IF bad = {} THEN Ok(SeqMap(Val, rs))
        ELSE rs[CHOOSE i \in bad : \A j \in bad : i <= j]

\* ListBlock.to_python: a ListValue of the child's to_python of each item
ListBlock_to_python(b, rows, value) ==
    LET it == Iterate(value)
    IN  IF ~IsOk(it) THEN it
        ELSE LET c == Collect(SeqMap(
                          LAMBDA x : FieldBlock_to_python(b.child, rows, x),
                          Val(it)))
             IN  IF IsOk(c) THEN Ok(<<"ListValue", Val(c)>>) ELSE c

ListBlock_get_prep_value_truncated(b, value) ==
    LET it == Iterate(value)
    IN  IF ~IsOk(it) THEN it
        ELSE LET c == Collect(SeqMap(
                          LAMBDA x : FieldBlock_get_prep_value(b.child, x),
                          IF Val(it) = <<>> THEN <<>> ELSE Tail(Val(it))))
             IN  IF IsOk(c) THEN Ok(List(Val(c))) ELSE c
\* ListBlock.get_prep_value: a list of the child's get_prep_value of each
ListBlock_get_prep_value(b, value) ==
    LET it == Iterate(value)
    IN  IF ~IsOk(it) THEN it
        ELSE LET c == Collect(SeqMap(
                          LAMBDA x : FieldBlock_get_prep_value(b.child, x),
                          Val(it)))
             IN  IF IsOk(c) THEN Ok(List(Val(c))) ELSE c

----------------------------------------------------------------------------
(* Forms of a list: the specification of the list block operations *)

Text_A == <<"A">>
Text_B == <<"B">>
Text_AB == <<"A", "B">>

\* leaf blocks a list is built over
LeafBlocks ==
    {FieldBlock_init(k, r, m) :
        k \in {"CharBlock", "RawHTMLBlock"}, r \in BOOLEAN, m \in {0, 1}}

ListBlocks ==
    {ListBlock_init(c, d) : c \in LeafBlocks, d \in {Unset, List(<<>>)}}

\* the list blocks a form is submitted to
FormBlocks ==
    {ListBlock_init(FieldBlock_init(k, TRUE, 0), Unset) :
        k \in {"CharBlock", "RawHTMLBlock"}}

\* what a form submits for one position
OrderTexts == {<<"1">>, <<"2">>, <<"1", "0">>}
DeletedTexts == {<<>>, <<"1">>}
SubmittedValues == {None, Str(Text_A), Str(Text_B)}
Entries == OrderTexts \X DeletedTexts \X SubmittedValues

\* elements offered to clean
ElementValues == {None, Str(<<>>), Str(Text_A), Str(Text_AB), Str(<<" ">>)}

SeqsUpTo(S, n) == UNION {[1..k -> S] : k \in 0..n}

CleanInputs == {List(xs) : xs \in SeqsUpTo(ElementValues, MaxListLen)}

InitCommon ==
    /\ op = "init"
    /\ res = None
    /\ db = {}
    /\ creation_counter = 0
    /\ blocks = <<>>
    /\ classes = <<>>

InitList ==
    /\ InitCommon
    /\ \/ /\ block \in FormBlocks
          /\ \E n \in 0..MaxCount :
                \E es \in [1..n -> Entries] : arg = <<"data", NatText(n), es>>
       \/ block \in ListBlocks /\ arg \in CleanInputs
       \/ block \in ListBlocks /\ arg = <<"default">>

\* one call: the operation o maps the drawn input to its outcome
Call(o, r) ==
    /\ op = "init"
    /\ op' = o
    /\ res' = r
    /\ UNCHANGED <<arg, block, db, creation_counter, blocks, classes>>

\* a form submission reaches ListBlock.value_from_datadict
DoValueFromDatadict ==
    /\ Tag(arg) = "data"
    /\ Call("value_from_datadict",
            ListBlock_value_from_datadict(block, <<arg[2], arg[3]>>))

\* ListBlock.clean on a list of submitted values
DoListClean ==
    /\ Tag(arg) = "list"
    /\ Call("clean", ListBlock_clean(block, arg))

\* get_default() and then clean() of the value it returned
DoDefaultClean ==
    /\ arg = <<"default">>
    /\ Call("get_default_clean",
            ListBlock_clean(block, ListBlock_get_default(block)))

NextList ==
    \/ DoValueFromDatadict
    \/ DoListClean
    \/ DoDefaultClean

SpecList == InitList /\ [][NextList]_vars

----------------------------------------------------------------------------
(* Properties of the list block *)

\* the positions of a submission that are not flagged deleted
Kept(es) == {i \in 1..Len(es) : es[i][2] = <<>>}

DistinctOrders(es) ==
    \A i, j \in Kept(es) : i # j => DigitsVal(es[i][1]) # DigitsVal(es[j][1])

\* the place of position i among the kept positions, by numeric order index
Rank(es, i) ==
    1 + Cardinality({j \in Kept(es) :
                        DigitsVal(es[j][1]) < DigitsVal(es[i][1])})

\* C1: when the order indexes of the entries not flagged deleted are
\* pairwise distinct, value_from_datadict returns exactly the values of
\* those entries, each once, in ascending numeric order of their index.
C1_ListReconciliation ==
    (op = "value_from_datadict" /\ DistinctOrders(arg[3])) =>
        /\ IsOk(res)
        /\ Tag(Val(res)) = "list"
        /\ Len(Items(Val(res))) = Cardinality(Kept(arg[3]))
        /\ \A i \in Kept(arg[3]) :
               Items(Val(res))[Rank(arg[3], i)] =
                   FieldBlock_value_from_datadict(block.child, arg[3][i][3])

\* the submission (10, kept, A), (1, kept, B), (2, deleted, A) gave [B, A]
C1_Witness ==
    /\ op = "value_from_datadict"
    /\ block.child.kind = "CharBlock"
    /\ arg[3] = << <<(<<"1", "0">>), <<>>, Str(Text_A)>>,
                   <<(<<"1">>), <<>>, Str(Text_B)>>,
                   <<(<<"2">>), <<"1">>, Str(Text_A)>> >>
    /\ res = Ok(List(<<Str(Text_B), Str(Text_A)>>))

\* C2: clean runs the child's clean on every element; with no failure it
\* returns the cleaned elements in order, otherwise it raises one
\* ValidationError whose params has the length of the input, an error
\* entry at each failing position and None at each passing one.
C2_ListCleanCollects ==
    op = "clean" =>
        LET xs == Items(arg)
            each == [i \in 1..Len(xs) |-> FieldBlock_clean(block.child, xs[i])]
        IN  IF \A i \in 1..Len(xs) : IsOk(each[i])
                THEN /\ IsOk(res)
                     /\ Len(Items(Val(res))) = Len(xs)
                     /\ \A i \in 1..Len(xs) :
                            Items(Val(res))[i] = Val(each[i])
            ELSE /\ IsRaise(res, "ValidationError")
                 /\ res[3][1] = "params"
                 /\ Len(res[3][2]) = Len(xs)
                 /\ \A i \in 1..Len(xs) :
                        IF IsOk(each[i]) THEN res[3][2][i] = None
                        ELSE /\ Tag(res[3][2][i]) = "ErrorList"
                             /\ res[3][2][i][2] = each[i][3]

\* a failure, a pass and a second failure were all reported
C2_Witness ==
    /\ op = "clean"
    /\ Len(Items(arg)) = 3
    /\ IsRaise(res, "ValidationError")
    /\ Tag(res[3][2][1]) = "ErrorList"
    /\ res[3][2][2] = None
    /\ Tag(res[3][2][3]) = "ErrorList"

\* C8: the value get_default() returns is accepted by the same list
\* block's clean.
C8_DefaultTotality ==
    op = "get_default_clean" => IsOk(res)

----------------------------------------------------------------------------
(* Conversions: to_python and get_prep_value of list and leaf blocks *)

Text_2020_02_29 == <<"2", "0", "2", "0", "-", "0", "2", "-", "2", "9">>
Text_2021_02_29 == <<"2", "0", "2", "1", "-", "0", "2", "-", "2", "9">>
Text_2020_2_9 == <<"2", "0", "2", "0", "-", "2", "-", "9">>
Text_1_05 == <<"1", ":", "0", "5">>
Text_23_59_59 == <<"2", "3", ":", "5", "9", ":", "5", "9">>
Text_24_00 == <<"2", "4", ":", "0", "0">>
Text_x == <<"x">>

LeafKinds ==
    {"CharBlock", "RawHTMLBlock", "DateBlock", "TimeBlock", "DateTimeBlock",
     "ModelChoiceBlock"}

ConvertBlocks ==
    {ListBlock_init(FieldBlock_init(k, TRUE, 0), Unset) : k \in LeafKinds}

\* the rows of the target model, and a key that has no row
Rows == {1}
MissingKey == 2

\* valid native values of a leaf block
NativeValues(kind) ==
    CASE kind = "CharBlock" -> {Str(<<>>), Str(Text_A), Str(Text_AB)}
      [] kind = "RawHTMLBlock" -> {Safe(<<>>), Safe(Text_A), Safe(Text_AB)}
      [] kind = "DateBlock" ->
            {None, <<"date", 2020, 2, 29>>, <<"date", 2021, 1, 5>>}
      [] kind = "TimeBlock" ->
            {None, <<"time", 1, 5, 0>>, <<"time", 23, 59, 59>>}
      [] kind = "DateTimeBlock" ->
            {None, <<"datetime", 2020, 2, 29, 1, 5, 0>>,
             <<"datetime", 2021, 1, 5, 23, 59, 59>>}
      [] kind = "ModelChoiceBlock" -> {None} \cup {Entity(k) : k \in Rows}

\* serialised and other raw values a leaf block is given
RawValues(kind) ==
    CASE kind = "CharBlock" -> {None, Str(<<>>), Str(Text_A)}
      [] kind = "RawHTMLBlock" -> {None, Str(Text_A), Safe(Text_A)}
      [] kind = "DateBlock" ->
            {None, Str(Text_2020_02_29), Str(Text_2021_02_29),
             Str(Text_2020_2_9), Str(Text_x), <<"date", 2020, 2, 29>>}
      [] kind = "TimeBlock" ->
            {None, Str(Text_1_05), Str(Text_23_59_59), Str(Text_24_00),
             Str(Text_x), <<"time", 1, 5, 0>>}
      [] kind = "DateTimeBlock" ->
            {None, Str(Text_2020_02_29 \o <<"T">> \o Text_1_05),
             Str(Text_2020_2_9 \o <<" ">> \o Text_23_59_59),
             Str(Text_2021_02_29 \o <<"T">> \o Text_1_05),
             Str(Text_x), <<"datetime", 2020, 2, 29, 1, 5, 0>>}
      [] kind = "ModelChoiceBlock" ->
            {None, IntV(1), IntV(MissingKey), Str(<<"1">>), Entity(1)}

InitConvert ==
    /\ op = "init"
    /\ res = None
    /\ db = Rows
    /\ creation_counter = 0
    /\ blocks = <<>>
    /\ classes = <<>>
    /\ block \in ConvertBlocks
    /\ \/ \E xs \in SeqsUpTo(NativeValues(block.child.kind), MaxListLen) :
              arg = <<"native", <<"ListValue", xs>>>>
       \/ \E v \in NativeValues(block.child.kind) : arg = <<"native_leaf", v>>
       \/ \E xs \in SeqsUpTo(RawValues(block.child.kind), MaxListLen) :
              arg = <<"raw", List(xs)>>
       \/ \E v \in RawValues(block.child.kind) : arg = <<"raw_leaf", v>>

\* a native list value is serialised and read back
DoListRoundTrip ==
    /\ Tag(arg) = "native"
    /\ Call("list_round_trip",
            Then(ListBlock_get_prep_value(block, arg[2]),
                 LAMBDA j : ListBlock_to_python(block, db, j)))

\* a native leaf value is serialised and read back
DoLeafRoundTrip ==
    /\ Tag(arg) = "native_leaf"
    /\ Call("leaf_round_trip",
            Then(FieldBlock_get_prep_value(block.child, arg[2]),
                 LAMBDA j : FieldBlock_to_python(block.child, db, j)))

\* to_python of a raw list, and to_python again of the result
DoListToPythonTwice ==
    /\ Tag(arg) = "raw"
    /\ LET first == ListBlock_to_python(block, db, arg[2])
       IN  Call("list_to_python_twice",
                <<"twice", first,
                  Then(first, LAMBDA v : ListBlock_to_python(block, db, v))>>)

\* to_python of a raw leaf value, and to_python again of the result
DoLeafToPythonTwice ==
    /\ Tag(arg) = "raw_leaf"
    /\ LET first == FieldBlock_to_python(block.child, db, arg[2])
       IN  Call("leaf_to_python_twice",
                <<"twice", first,
                  Then(first,
                       LAMBDA v : FieldBlock_to_python(block.child, db, v))>>)

NextConvert ==
    \/ DoListRoundTrip
    \/ DoLeafRoundTrip
    \/ DoListToPythonTwice
    \/ DoLeafToPythonTwice

SpecConvert == InitConvert /\ [][NextConvert]_vars

\* the round trip of one leaf value
LeafRoundTrip(b, rows, v) ==
    Then(FieldBlock_get_prep_value(b, v),
         LAMBDA j : FieldBlock_to_python(b, rows, j))

\* C6: to_python(get_prep_value(v)) of a valid native list value has the
\* length of v, its i-th element is the child's round trip of v[i], and
\* it is structurally equal to v; the round trip of a valid native leaf
\* value (text, raw HTML, date, time, date-time, reference) is that value.
C6_RoundTrip ==
    /\ op = "list_round_trip" =>
          /\ IsOk(res)
          /\ Tag(Val(res)) = "ListValue"
          /\ Len(Items(Val(res))) = Len(Items(arg[2]))
          /\ \A i \in 1..Len(Items(arg[2])) :
                 /\ Ok(Items(Val(res))[i]) =
                        LeafRoundTrip(block.child, db, Items(arg[2])[i])
                 /\ Items(Val(res))[i] = Items(arg[2])[i]
    /\ op = "leaf_round_trip" => res = Ok(arg[2])

\* a list of three different native values came back, and so did a leaf
C6_Witness ==
    \/ /\ op = "list_round_trip"
       /\ Len(Items(arg[2])) = 3
       /\ Items(arg[2])[1] # Items(arg[2])[2]
       /\ Items(arg[2])[2] # Items(arg[2])[3]
       /\ block.child.kind = "RawHTMLBlock"
       /\ IsOk(res)
    \/ /\ op = "leaf_round_trip"
       /\ block.child.kind = "ModelChoiceBlock"
       /\ arg[2] = Entity(1)
       /\ res = Ok(Entity(1))

----------------------------------------------------------------------------
(* StreamBlock and StreamValue, and the StreamField model field over them. *)
(* A stream block is a record [child_blocks], the palette: a sequence of   *)
(* <<name, leaf block>>.  A pair of a stream is the Python pair            *)
(* (name, value).                                                          *)

Pair(name, v) == List(<<Str(name), v>>)

\* StreamValue(stream_block, stream_data, raw_text=None): the pairs as
\* given, holding native values, and the raw text kept aside
StreamValue(stream_data, raw_text) == <<"StreamValue", stream_data, raw_text>>

Declared(root, name) ==
    \E i \in 1..Len(root.child_blocks) : root.child_blocks[i][1] = name
ChildBlock(root, name) ==
    root.child_blocks[CHOOSE i \in 1..Len(root.child_blocks) :
                          root.child_blocks[i][1] = name][2]

IsPair(x) == Tag(x) = "list" /\ Len(x[2]) = 2 /\ Tag(x[2][1]) = "str"

\* StreamBlock.to_python: each [name, value] of the parsed array is
\* decomposed with the to_python of the variant of that name
StreamBlock_to_python(root, rows, value) ==
    IF Tag(value) # "list" THEN Raise("TypeError", None)
    ELSE LET each == SeqMap(
                 LAMBDA x :
                     IF ~IsPair(x) THEN Raise("ValueError", None)
                     ELSE IF ~Declared(root, x[2][1][2])
                         THEN Raise("KeyError", None)
                     ELSE Then(FieldBlock_to_python(
                                   ChildBlock(root, x[2][1][2]), rows, x[2][2]),
                               LAMBDA v : Ok(Pair(x[2][1][2], v))),
                 value[2])
             c == Collect(each)
         IN  IF IsOk(c) THEN Ok(StreamValue(Val(c), None)) ELSE c

\* StreamBlock.get_prep_value: the array of [name, child get_prep_value]
\* in sequence order; a value that is empty or None gives the empty array
StreamBlock_get_prep_value(root, value) ==
    IF ~Truthy(value) THEN Ok(List(<<>>))
    ELSE LET each == SeqMap(
                 LAMBDA x :
                     Then(FieldBlock_get_prep_value(
                              ChildBlock(root, x[2][1][2]), x[2][2]),
                          LAMBDA j : Ok(Pair(x[2][1][2], j))),
                 value[2])
             c == Collect(each)
         IN  IF IsOk(c) THEN Ok(List(Val(c))) ELSE c

\* [None for (x, y) in value]: every item has to unpack into two
UnpacksAsPairs(value) ==
    LET it == Iterate(value)
    IN  /\ IsOk(it)
        /\ \A i \in 1..Len(Val(it)) :
               /\ Tag(Val(it)[i]) \in {"list", "ListValue", "str", "safe"}
               /\ Len(Val(it)[i][2]) = 2

StreamField_to_python_converting(field, rows, value) ==
    IF value = None \/ (IsText(value) /\ value[2] = <<>>)
        THEN Ok(StreamValue(<<>>, None))
    ELSE IF Tag(value) = "StreamValue" THEN Ok(value)
    ELSE IF IsText(value) THEN
        LET unpacked_value == json_loads(value[2])
        IN  IF IsRaise(unpacked_value, "ValueError")
                THEN Ok(StreamValue(<<>>, Str(value[2])))
            ELSE IF Val(unpacked_value) = None THEN Ok(StreamValue(<<>>, None))
            ELSE StreamBlock_to_python(field.root_block, rows,
                                       Val(unpacked_value))
    ELSE StreamBlock_to_python(field.root_block, rows, value)
StreamField_to_python_null_as_text(field, rows, value) ==
    IF value = None \/ (IsText(value) /\ value[2] = <<>>)
        THEN Ok(StreamValue(<<>>, None))
    ELSE IF Tag(value) = "StreamValue" THEN Ok(value)
    ELSE IF IsText(value) THEN
        LET unpacked_value == json_loads(value[2])
        IN  IF IsRaise(unpacked_value, "ValueError")
               \/ Val(unpacked_value) = None
                THEN Ok(StreamValue(<<>>, value))
            ELSE StreamBlock_to_python(field.root_block, rows,
                                       Val(unpacked_value))
    ELSE IF ~UnpacksAsPairs(value) THEN Raise("TypeError", None)
    ELSE Ok(StreamValue(Items(value), None))
StreamField_to_python_dropping_text(field, rows, value) ==
    IF value = None \/ (IsText(value) /\ value[2] = <<>>)
        THEN Ok(StreamValue(<<>>, None))
    ELSE IF Tag(value) = "StreamValue" THEN Ok(value)
    ELSE IF IsText(value) THEN
        LET unpacked_value == json_loads(value[2])
        IN  IF IsRaise(unpacked_value, "ValueError")
                THEN Ok(StreamValue(<<>>, None))
            ELSE IF Val(unpacked_value) = None THEN Ok(StreamValue(<<>>, None))
            ELSE StreamBlock_to_python(field.root_block, rows,
                                       Val(unpacked_value))
    ELSE IF ~UnpacksAsPairs(value) THEN Raise("TypeError", None)
    ELSE Ok(StreamValue(Items(value), None))
\* StreamField.to_python
StreamField_to_python(field, rows, value) ==
    IF value = None \/ (IsText(value) /\ value[2] = <<>>)
        THEN Ok(StreamValue(<<>>, None))
    ELSE IF Tag(value) = "StreamValue" THEN Ok(value)
    ELSE IF IsText(value) THEN
        LET unpacked_value == json_loads(value[2])
        IN  IF IsRaise(unpacked_value, "ValueError")
                THEN Ok(StreamValue(<<>>, value))
            ELSE IF Val(unpacked_value) = None THEN Ok(StreamValue(<<>>, None))
            ELSE StreamBlock_to_python(field.root_block, rows,
                                       Val(unpacked_value))
    ELSE IF ~UnpacksAsPairs(value) THEN Raise("TypeError", None)
    ELSE Ok(StreamValue(Items(value), None))

StreamField_get_prep_value_raw_first(field, value) ==
    IF Tag(value) = "StreamValue" /\ value[3] # None THEN Ok(value[3])
    ELSE Then(StreamBlock_get_prep_value(field.root_block, value), json_dumps)
\* StreamField.get_prep_value
StreamField_get_prep_value(field, value) ==
    IF Tag(value) = "StreamValue" /\ ~Truthy(value) /\ value[3] # None
        THEN Ok(value[3])
    ELSE Then(StreamBlock_get_prep_value(field.root_block, value), json_dumps)

----------------------------------------------------------------------------
(* The specification of the stream field conversions *)

MaxTextLen == 3      \* characters of a stored text
MaxPairs == 2        \* pairs of a stream value

\* the field under use: StreamField([('c', CharBlock()), ('d', DateBlock())])
TheStreamField ==
    [root_block |->
        [child_blocks |-> << <<(<<"c">>), FieldBlock_init("CharBlock", TRUE, 0)>>,
                             <<(<<"d">>), FieldBlock_init("DateBlock", TRUE, 0)>> >>]]

\* the characters stored texts are made of
TextAlphabet == {"[", "]", "\"", ",", " ", "n", "u", "l", "c", "1", "x"}

Text_not_json == <<"n", "o", "t", " ", "j", "s", "o", "n">>

StoredTexts ==
    SeqsUpTo(TextAlphabet, MaxTextLen) \cup {Text_not_json, Text_2020_02_29}

\* serialised pairs: what the stored JSON holds for each variant
RawPairs ==
    {Pair(<<"c">>, v) : v \in {Str(Text_A)}}
    \cup {Pair(<<"d">>, v) :
              v \in {None, Str(Text_2020_02_29), Str(Text_2021_02_29),
                     Str(Text_x)}}

\* native pairs: what a stream value holds for each variant
NativePairs ==
    {Pair(<<"c">>, v) : v \in {Str(<<>>), Str(Text_A)}}
    \cup {Pair(<<"d">>, v) : v \in {None, <<"date", 2020, 2, 29>>}}

RawTexts == {None, Str(<<>>), Str(Text_x), Str(<<"[", "]">>)}

\* values that are no stream value, no text and no sequence of pairs
OtherShapes ==
    {IntV(5), List(<<IntV(1)>>), List(<<None>>), List(<<List(<<Str(Text_A)>>)>>),
     List(<<List(<<Str(Text_A), Str(Text_A), Str(Text_A)>>)>>),
     List(<<Str(Text_AB)>>)}

Text_null == <<"n", "u", "l", "l">>

\* the stored forms of "nothing": NULL, the empty text, JSON null
NullForms == {None, Str(<<>>), Str(Text_null), Str(<<" ">> \o Text_null)}

InitStream ==
    /\ op = "init"
    /\ res = None
    /\ db = {}
    /\ creation_counter = 0
    /\ blocks = <<>>
    /\ classes = <<>>
    /\ block = TheStreamField
    /\ \/ \E cs \in StoredTexts : arg = <<"text", Str(cs)>>
       \/ \E ps \in SeqsUpTo(NativePairs, MaxPairs), raw \in RawTexts :
              arg = <<"value", StreamValue(ps, raw)>>
       \/ \E ps \in SeqsUpTo(RawPairs \cup NativePairs, MaxPairs) :
              arg = <<"pairs", ps>>
       \/ \E v \in OtherShapes : arg = <<"other", v>>
       \/ \E v \in NullForms : arg = <<"null", v>>

\* a stored text is read with to_python and written with get_prep_value
DoStreamTextRoundTrip ==
    /\ Tag(arg) = "text"
    /\ LET first == StreamField_to_python(block, db, arg[2])
       IN  Call("text_round_trip",
                <<"twice", first,
                  Then(first, LAMBDA v : StreamField_get_prep_value(block, v))>>)

\* get_prep_value of a stream value
DoStreamGetPrepValue ==
    /\ Tag(arg) = "value"
    /\ Call("get_prep_value", StreamField_get_prep_value(block, arg[2]))

\* to_python of the same pairs as a stream value, as JSON text and as a
\* bare list
DoStreamShapes ==
    /\ Tag(arg) = "pairs"
    /\ Call("to_python_shapes",
            <<"shapes",
              StreamField_to_python(block, db, StreamValue(arg[2], None)),
              Then(json_dumps(List(arg[2])),
                   LAMBDA t : StreamField_to_python(block, db, t)),
              StreamField_to_python(block, db, List(arg[2]))>>)

\* to_python of a value of another shape
DoStreamOtherShape ==
    /\ Tag(arg) = "other"
    /\ Call("to_python_other", StreamField_to_python(block, db, arg[2]))

\* a stored form of "nothing" is read with to_python and written back
DoStreamNull ==
    /\ Tag(arg) = "null"
    /\ LET first == StreamField_to_python(block, db, arg[2])
       IN  Call("null_round_trip",
                <<"twice", first,
                  Then(first, LAMBDA v : StreamField_get_prep_value(block, v))>>)

NextStream ==
    \/ DoStreamNull
    \/ DoStreamTextRoundTrip
    \/ DoStreamGetPrepValue
    \/ DoStreamShapes
    \/ DoStreamOtherShape

SpecStream == InitStream /\ [][NextStream]_vars

NotJson(cs) == IsRaise(json_loads(cs), "ValueError")

\* the text came back as an empty stream keeping it, and was written back
FellBack(s, r) ==
    /\ IsOk(r[2])
    /\ Tag(Val(r[2])) = "StreamValue"
    /\ Val(r[2])[2] = <<>>
    /\ Val(r[2])[3] = s
    /\ r[3] = Ok(s)

\* C3 as stated: every text that does not parse as JSON becomes an empty
\* stream that keeps the text, and get_prep_value returns the text.
C3_LegacyFallback_AsStated ==
    (op = "text_round_trip" /\ NotJson(arg[2][2])) => FellBack(arg[2], res)

\* C3 amended: every non-empty text that json.loads rejects becomes an
\* empty stream that keeps the text as raw_text, and get_prep_value of
\* that stream returns exactly the text.
C3_LegacyFallback ==
    (op = "text_round_trip" /\ NotJson(arg[2][2]) /\ arg[2][2] # <<>>)
        => FellBack(arg[2], res)

\* 'not json' went through the fallback
C3_Witness ==
    /\ op = "text_round_trip"
    /\ arg[2] = Str(Text_not_json)
    /\ res[2] = Ok(StreamValue(<<>>, Str(Text_not_json)))
    /\ res[3] = Ok(Str(Text_not_json))

\* the JSON array of [name, serialised value] of the pairs, in order
PairsJson(root, ps) ==
    json_dumps(List([i \in 1..Len(ps) |->
        Pair(ps[i][2][1][2],
             Val(FieldBlock_get_prep_value(ChildBlock(root, ps[i][2][1][2]),
                                           ps[i][2][2])))]))

\* C4: get_prep_value returns the raw_text when the stream value is empty
\* and its raw_text is not None, and in every other case the JSON array
\* of the [name, serialised value] pairs in order; a stream that is not
\* empty is written as that array whatever its raw_text.
C4_PrepValueRawTextOnlyWhenEmpty ==
    op = "get_prep_value" =>
        IF arg[2][2] = <<>> /\ arg[2][3] # None
            THEN res = Ok(arg[2][3])
        ELSE /\ res = PairsJson(block.root_block, arg[2][2])
             /\ IsOk(res)
             /\ LET parsed == json_loads(Val(res)[2])
                IN  /\ IsOk(parsed)
                    /\ Tag(Val(parsed)) = "list"
                    /\ Len(Val(parsed)[2]) = Len(arg[2][2])
                    /\ \A i \in 1..Len(arg[2][2]) :
                           Val(parsed)[2][i][2][1] = arg[2][2][i][2][1]

\* a stream of two pairs with a raw_text was written as its JSON array,
\* not as the raw_text
C4_Witness ==
    /\ op = "get_prep_value"
    /\ Len(arg[2][2]) = 2
    /\ arg[2][3] = Str(Text_x)
    /\ IsOk(res)
    /\ Val(res) # Str(Text_x)

\* what the JSON text holds for a value: a date as its ISO text
Stored(v) == IF Tag(v) = "date" THEN Str(IsoDate(v[2], v[3], v[4])) ELSE v

\* the pairs with each stored value converted by the to_python of its
\* variant
ConvertedPairs(root, rows, ps) ==
    Collect([i \in 1..Len(ps) |->
        Then(FieldBlock_to_python(ChildBlock(root, ps[i][2][1][2]), rows,
                                  Stored(ps[i][2][2])),
             LAMBDA v : Ok(Pair(ps[i][2][1][2], v)))])

\* C5 as stated: the native stream value, the JSON text and the bare
\* sequence of the same pairs give equal stream values, every value
\* converted by the to_python of its variant; any other shape raises
\* TypeError.
C5_ShapesNormalised_AsStated ==
    /\ op = "to_python_shapes" =>
          LET c == ConvertedPairs(block.root_block, db, arg[2])
          IN  IsOk(c) => /\ res[2] = Ok(StreamValue(Val(c), None))
                         /\ res[3] = res[2]
                         /\ res[4] = res[2]
    /\ op = "to_python_other" => IsRaise(res, "TypeError")

\* C5 amended: a native stream value is returned as it is; a JSON text is
\* parsed and each pair's value converted by the to_python of its
\* variant, in order; a bare sequence of pairs is wrapped as it is, its
\* values taken as native and not converted.  The three agree when the
\* variants' to_python leaves the values unchanged.  A value that is no
\* text and cannot be iterated into two-element items raises TypeError.
C5_ShapesNormalised ==
    /\ op = "to_python_shapes" =>
          LET c == ConvertedPairs(block.root_block, db, arg[2])
          IN  /\ res[2] = Ok(StreamValue(arg[2], None))
              /\ res[4] = Ok(StreamValue(arg[2], None))
              /\ res[3] = IF IsOk(c) THEN Ok(StreamValue(Val(c), None)) ELSE c
              /\ (IsOk(c) /\ Val(c) = arg[2]) =>
                     (res[3] = res[2] /\ res[4] = res[2])
    /\ op = "to_python_other" =>
          IF /\ Tag(arg[2]) = "list"
             /\ \A i \in 1..Len(arg[2][2]) :
                    /\ Tag(arg[2][2][i]) \in {"list", "str"}
                    /\ Len(arg[2][2][i][2]) = 2
              THEN res = Ok(StreamValue(arg[2][2], None))
          ELSE IsRaise(res, "TypeError")

\* the pair ('d', '2020-02-29') came out of the JSON text as a date and
\* out of the bare sequence as the text
C5_Witness ==
    /\ op = "to_python_shapes"
    /\ arg[2] = <<Pair(<<"d">>, Str(Text_2020_02_29))>>
    /\ res[3] = Ok(StreamValue(<<Pair(<<"d">>, <<"date", 2020, 2, 29>>)>>, None))
    /\ res[4] = Ok(StreamValue(<<Pair(<<"d">>, Str(Text_2020_02_29))>>, None))

----------------------------------------------------------------------------
(* Block construction and declarative composition (blocks/base.py)         *)
(* A block definition is [name, label, creation_counter]; it is referred   *)
(* to by its place in blocks.  An OrderedDict is a sequence of             *)
(* <<key, value>> entries.  A declared class keeps its parent (0: no       *)
(* declaring ancestor), the names its body sets to None, declared_blocks   *)
(* and base_blocks.                                                        *)

MaxClasses == 2      \* container classes declared

Name_a == <<"a">>
Name_b == <<"b">>
Name_c == <<"c", "_", "x">>
Names == <<Name_a, Name_b, Name_c>>

\* str.replace for one-character old and new
Replace(x, old, new) == [i \in 1..Len(x) |-> IF x[i] = old THEN new ELSE x[i]]

\* str.upper on one character
Upper(c) ==
    CASE c = "a" -> "A"
      [] c = "b" -> "B"
      [] c = "c" -> "C"
      [] c = "x" -> "X"
      [] OTHER -> c

\* django.utils.text.capfirst
capfirst(x) == IF x = <<>> THEN x ELSE <<Upper(x[1])>> \o Tail(x)

\* Block.__init__ storing a constant instead of the class-wide counter
Block_init_uncounted(counter, label) ==
    [name |-> <<>>, label |-> label, creation_counter |-> 0]

\* Block.__init__: the definition takes the class-wide counter; name and,
\* without a label argument, label stay the class attributes ''
Block_init(counter, label) ==
    [name |-> <<>>, label |-> label, creation_counter |-> counter]

\* Block.set_name
set_name(self, name) ==
    [self EXCEPT !.name = name,
                 !.label = IF self.label = <<>>
                               THEN capfirst(Replace(name, "_", " "))
                           ELSE self.label]

OD_keys(od) == {od[i][1] : i \in 1..Len(od)}

\* OrderedDict.__setitem__ moving a key already present to the end
OD_set_move_to_end(od, k, v) ==
    Append(SelectSeq(od, LAMBDA e : e[1] # k), <<k, v>>)
\* OrderedDict.__setitem__: a key already present keeps its place
OD_set(od, k, v) ==
    IF k \in OD_keys(od)
        THEN [i \in 1..Len(od) |-> IF od[i][1] = k THEN <<k, v>> ELSE od[i]]
    ELSE Append(od, <<k, v>>)

RECURSIVE OD_update(_, _)
\* OrderedDict.update with the entries of another ordered dict
OD_update(od, items) ==
    IF items = <<>> THEN od
    ELSE OD_update(OD_set(od, Head(items)[1], Head(items)[2]), Tail(items))

\* OrderedDict.pop
OD_pop(od, k) == SelectSeq(od, LAMBDA e : e[1] # k)

RECURSIVE InsertByCounter(_, _, _)
InsertByCounter(blks, e, s) ==
    IF s = <<>> THEN <<e>>
    ELSE IF blks[e[2]].creation_counter <= blks[Head(s)[2]].creation_counter
        THEN <<e>> \o s
    ELSE <<Head(s)>> \o InsertByCounter(blks, e, Tail(s))

RECURSIVE SortByCounter(_, _)
\* list.sort(key=lambda x: x[1].creation_counter), stable
SortByCounter(blks, s) ==
    IF s = <<>> THEN <<>>
    ELSE InsertByCounter(blks, Head(s), SortByCounter(blks, Tail(s)))

\* the attributes of a class body, in the order the body binds them
BodyItems(attrs) ==
    LET all == [i \in 1..Len(Names) |-> <<Names[i], attrs[Names[i]]>>]
    IN  SelectSeq(all, LAMBDA e : e[2] # <<"absent">>)

RECURSIVE reversed_mro(_, _)
\* reversed(new_class.__mro__) over the classes that went through the
\* metaclass, the oldest ancestor first
reversed_mro(cls, k) ==
    IF k = 0 THEN <<>> ELSE Append(reversed_mro(cls, cls[k].parent), k)

RECURSIVE PopShadowed(_, _)
\* the field shadowing loop over base.__dict__
PopShadowed(od, nulls) ==
    IF nulls = {} THEN od
    ELSE LET attr == CHOOSE n \in nulls : TRUE
         IN  PopShadowed(IF attr \in OD_keys(od) THEN OD_pop(od, attr) ELSE od,
                         nulls \ {attr})

RECURSIVE WalkMro(_, _, _)
WalkMro(cls, mro, base_blocks) ==
    IF mro = <<>> THEN base_blocks
    ELSE LET base == cls[Head(mro)]
         IN  WalkMro(cls, Tail(mro),
                     PopShadowed(OD_update(base_blocks, base.declared_blocks),
                                 base.nulls))

\* current_blocks in body order, not sorted
CurrentBlocks(attrs) ==
    LET items == SelectSeq(BodyItems(attrs), LAMBDA e : Tag(e[2]) = "block")
    IN  [i \in 1..Len(items) |-> <<items[i][1], items[i][2][2]>>]

\* DeclarativeSubBlocksMetaclass.__new__: the class it makes.  Every value
\* of base_blocks is a Block instance already, so none is instantiated.
DeclarativeSubBlocksMetaclass_new(cls, blks, parent, attrs) ==
    LET new_class == [parent |-> parent,
                      nulls |-> {n \in DOMAIN attrs : attrs[n] = None},
                      declared_blocks |-> SortByCounter(blks, CurrentBlocks(attrs)),
                      base_blocks |-> <<>>]
        all == Append(cls, new_class)
    IN  [new_class EXCEPT
            !.base_blocks = WalkMro(all, reversed_mro(all, Len(all)), <<>>)]

\* the blocks after the metaclass has called set_name on the declared ones
NamedBlocks(blks, attrs) ==
    [i \in 1..Len(blks) |->
        IF \E n \in DOMAIN attrs : attrs[n] = <<"block", i>>
            THEN set_name(blks[i],
                          CHOOSE n \in DOMAIN attrs : attrs[n] = <<"block", i>>)
        ELSE blks[i]]

\* the number of definitions a class body binds
Bound(attrs) == Cardinality({n \in DOMAIN attrs : Tag(attrs[n]) = "block"})

\* class bodies: every name is left out, set to None or bound to a
\* definition; the definitions of a body are constructed for it, in any
\* order, and follow the n0 definitions there are
Bodies(n0) ==
    LET NameSet == {Names[i] : i \in 1..Len(Names)}
        AttrValues == {<<"absent">>, None}
                        \cup {<<"block", n0 + r>> : r \in 1..Len(Names)}
    IN  {attrs \in [NameSet -> AttrValues] :
            {attrs[n][2] : n \in {m \in NameSet : Tag(attrs[m]) = "block"}}
                = (n0 + 1)..(n0 + Bound(attrs))}

InitDecl ==
    /\ InitCommon
    /\ arg = None
    /\ block = None

\* a class statement is executed: the definitions its body binds are
\* constructed, then the metaclass makes the class
DoDeclareClass ==
    /\ Len(classes) < MaxClasses
    /\ \E parent \in 0..Len(classes), attrs \in Bodies(Len(blocks)) :
          LET made == blocks \o [r \in 1..Bound(attrs) |->
                                    Block_init(creation_counter + r - 1, <<>>)]
          IN  /\ classes' = Append(classes,
                     DeclarativeSubBlocksMetaclass_new(classes, made, parent, attrs))
              /\ blocks' = NamedBlocks(made, attrs)
              /\ creation_counter' = creation_counter + Bound(attrs)
    /\ op' = "class"
    /\ UNCHANGED <<arg, res, block, db>>

NextDecl == DoDeclareClass

SpecDecl == InitDecl /\ [][NextDecl]_vars

\* base_blocks of the parent class, empty without a declaring ancestor
Inherited(k) ==
    IF classes[k].parent = 0 THEN <<>>
    ELSE classes[classes[k].parent].base_blocks

Pos(od, key) == CHOOSE i \in 1..Len(od) : od[i][1] = key

\* C9 as stated: the resolved children of every class are the inherited
\* children without the names the class declares again (as a definition
\* or as None), followed by the class's own declared children sorted by
\* creation sequence.
C9_CompositionOrder_AsStated ==
    \A k \in 1..Len(classes) :
        LET D == classes[k].declared_blocks
            gone == OD_keys(D) \cup classes[k].nulls
        IN  classes[k].base_blocks =
                SelectSeq(Inherited(k), LAMBDA e : e[1] \notin gone) \o D

\* C9: walking the ancestors oldest first and then the class, a class's
\* declared children (sorted by creation sequence) are merged into the
\* inherited mapping: a name already there keeps its inherited place and
\* takes the new definition, a new name goes to the end in creation
\* order; the names the class sets to None are then removed.
C9_CompositionOrder ==
    \A k \in 1..Len(classes) :
        LET P == Inherited(k)
            D == classes[k].declared_blocks
            R == classes[k].base_blocks
        IN  /\ \A i, j \in 1..Len(D) :
                   i < j => blocks[D[i][2]].creation_counter
                              < blocks[D[j][2]].creation_counter
            /\ \A i \in 1..Len(D) : blocks[D[i][2]].name = D[i][1]
            /\ OD_keys(R) = (OD_keys(P) \cup OD_keys(D)) \ classes[k].nulls
            /\ \A i, j \in 1..Len(R) : i # j => R[i][1] # R[j][1]
            /\ \A i \in 1..Len(R) :
                   R[i][2] = IF R[i][1] \in OD_keys(D)
                                 THEN D[Pos(D, R[i][1])][2]
                             ELSE P[Pos(P, R[i][1])][2]
            /\ \A i, j \in 1..Len(R) :
                   i < j =>
                     IF R[j][1] \in OD_keys(P)
                         THEN /\ R[i][1] \in OD_keys(P)
                              /\ Pos(P, R[i][1]) < Pos(P, R[j][1])
                     ELSE R[i][1] \in OD_keys(P)
                            \/ Pos(D, R[i][1]) < Pos(D, R[j][1])

\* base [a, b]; the subclass adds c and then declares a again: a keeps the
\* first place with the new definition
C9_Witness ==
    /\ Len(classes) = 2
    /\ classes[2].parent = 1
    /\ classes[1].base_blocks = <<<<Name_a, 1>>, <<Name_b, 2>>>>
    /\ classes[2].declared_blocks = <<<<Name_c, 3>>, <<Name_a, 4>>>>
    /\ classes[2].base_blocks = <<<<Name_a, 4>>, <<Name_b, 2>>, <<Name_c, 3>>>>

----------------------------------------------------------------------------
(* Block equality (blocks/base.py)                                         *)
(* Here a block definition is <<"Block", id, class, args, kwargs, name>>:  *)
(* the object's identity, its class, the positional and keyword arguments  *)
(* Block.__new__ captured, and its name.  A class is [module, name,        *)
(* found, alias]: found says that the module has an attribute of the       *)
(* class's name, alias is the class's DECONSTRUCT_ALIASES entry or <<>>.   *)
(* A path is <<module, name>>.  kwargs is a set of <<key, value>>.         *)

Bool(b) == <<"bool", b>>

CharBlockClass ==
    [module |-> "streamfield.blocks.field_block", name |-> "CharBlock",
     found |-> TRUE, alias |-> <<"streamfield.blocks", "CharBlock">>]

ListBlockClass ==
    [module |-> "streamfield.blocks.list_block", name |-> "ListBlock",
     found |-> TRUE, alias |-> <<"streamfield.blocks", "ListBlock">>]

\* class TitleBlock(CharBlock) in the body of a project module
TitleBlockClass ==
    [module |-> "app.blocks", name |-> "TitleBlock",
     found |-> TRUE, alias |-> <<>>]

\* class LocalBlock(CharBlock) in the body of a function or a class
LocalBlockClass ==
    [module |-> "app.blocks", name |-> "LocalBlock",
     found |-> FALSE, alias |-> <<>>]

\* Block.__new__: the arguments are captured; name is the class's ''
Block_new(id, cls, args, kwargs) == <<"Block", id, cls, args, kwargs, <<>>>>

\* Block.set_name, the name
Named(self, name) == [self EXCEPT ![6] = name]

\* Block.deconstruct
Block_deconstruct(self) ==
    LET cls == self[3]
    IN  IF ~cls.found THEN Raise("ValueError", None)
        ELSE Ok(<<IF cls.alias # <<>> THEN cls.alias
                  ELSE <<cls.module, cls.name>>,
                  self[4], self[5]>>)

\* dict == dict over values that are no blocks
DictEq(a, b) ==
    /\ {e[1] : e \in a} = {e[1] : e \in b}
    /\ \A e \in a : \A f \in b : e[1] = f[1] => PyEq(e[2], f[2])

RECURSIVE Block_eq(_, _)
RECURSIVE py_eq(_, _)
RECURSIVE ItemEq(_, _)
RECURSIVE TupleEq(_, _)

\* v == w: the left operand's __eq__, the right one's when the left one
\* does not know the right operand's type
py_eq(v, w) ==
    IF Tag(v) = "Block" THEN Block_eq(v, w)
    ELSE IF Tag(w) = "Block" THEN Block_eq(w, v)
    ELSE Ok(Bool(PyEq(v, w)))

\* the comparison of two items of a container: the same object is equal
ItemEq(v, w) ==
    IF Tag(v) = "Block" /\ Tag(w) = "Block" /\ v[2] = w[2] THEN Ok(Bool(TRUE))
    ELSE py_eq(v, w)

\* tuple == tuple: item by item up to the first difference
TupleEq(a, b) ==
    IF a = <<>> \/ b = <<>> THEN Ok(Bool(Len(a) = Len(b)))
    ELSE LET r == ItemEq(Head(a), Head(b))
         IN  IF r # Ok(Bool(TRUE)) THEN r
             ELSE TupleEq(Tail(a), Tail(b))

\* Block.__eq__
Block_eq(self, other) ==
    IF Tag(other) # "Block" THEN Ok(Bool(FALSE))
    ELSE IF self[6] # other[6] THEN Ok(Bool(FALSE))
    ELSE LET a == Block_deconstruct(self)
             b == Block_deconstruct(other)
         IN  IF ~IsOk(a) THEN a
             ELSE IF ~IsOk(b) THEN b
             ELSE IF Val(a)[1] # Val(b)[1] THEN Ok(Bool(FALSE))
             ELSE LET r == TupleEq(Val(a)[2], Val(b)[2])
                  IN  IF r # Ok(Bool(TRUE)) THEN r
                      ELSE Ok(Bool(DictEq(Val(a)[3], Val(b)[3])))

\* the definitions compared
EqKwargs ==
    {{}, {<<"required", Bool(FALSE)>>}, {<<"max_length", IntV(1)>>}}
LeafClasses == {CharBlockClass, TitleBlockClass, LocalBlockClass}
EqNames == {<<>>, Name_a}

Leaves(id) ==
    {Named(Block_new(id, c, <<>>, k), n) :
        c \in LeafClasses, k \in EqKwargs, n \in EqNames}

\* ListBlock(child): the child is a leaf definition that has no name
ListsOver(id, children) ==
    {Named(Block_new(id, ListBlockClass, <<child>>, {}), n) :
        child \in children, n \in EqNames}

Lists(id, cid) ==
    ListsOver(id, {Block_new(cid, c, <<>>, k) : c \in LeafClasses, k \in EqKwargs})

\* the second operand: the same object, another object, or another list
\* over the child object of the first
Others(x) ==
    {x} \cup Leaves(2) \cup Lists(2, 4)
        \cup (IF x[4] # <<>> THEN ListsOver(2, {x[4][1]}) ELSE {})

NonBlocks == {None, Str(Name_a), IntV(1), List(<<>>)}

InitEq ==
    /\ InitCommon
    /\ block = None
    /\ \E x \in Leaves(1) \cup Lists(1, 3) :
          \/ \E y \in Others(x) : arg = <<"blocks", x, y>>
          \/ \E v \in NonBlocks : arg = <<"other", x, v>>

\* x == y and y == x for two block definitions
DoEq ==
    /\ Tag(arg) = "blocks"
    /\ Call("eq", <<"both", py_eq(arg[2], arg[3]), py_eq(arg[3], arg[2])>>)

\* x == v and v == x for a value that is no block
DoEqOther ==
    /\ Tag(arg) = "other"
    /\ Call("eq_other", <<"both", py_eq(arg[2], arg[3]), py_eq(arg[3], arg[2])>>)

NextEq ==
    \/ DoEq
    \/ DoEqOther

SpecEq == InitEq /\ [][NextEq]_vars

\* the path a class is known by
ClassPath(cls) == IF cls.alias # <<>> THEN cls.alias ELSE <<cls.module, cls.name>>

RECURSIVE Definition(_)
\* a definition without the identity of the objects: name, class path and
\* captured arguments, the blocks among them taken the same way
Definition(v) ==
    IF Tag(v) # "Block" THEN v
    ELSE <<"Block", v[6], ClassPath(v[3]),
           [i \in 1..Len(v[4]) |-> Definition(v[4][i])], v[5]>>

\* C10: x == y holds exactly when the names are equal and the
\* reconstruction signatures (class path, captured positional and keyword
\* arguments) are equal; the relation is symmetric and reflexive and
\* holds across distinct instances; comparing with a value that is no
\* block gives False.
C10_BlockEquality ==
    /\ op = "eq" =>
          LET x == arg[2]
              y == arg[3]
              expected == Ok(Bool(Definition(x) = Definition(y)))
          IN  /\ res[2] = expected
              /\ res[3] = expected
              /\ x = y => res[2] = Ok(Bool(TRUE))
    /\ op = "eq_other" =>
          /\ res[2] = Ok(Bool(FALSE))
          /\ res[3] = Ok(Bool(FALSE))

----------------------------------------------------------------------------
(* Binding names: Block.__init__ and Block.set_name called in any order    *)

MaxBlocks == 3       \* block definitions constructed

Labels == {<<>>, <<"L">>}

NameSet == {Names[i] : i \in 1..Len(Names)}

\* a block definition is constructed, with or without a label
DoBlockInit ==
    /\ creation_counter < MaxBlocks
    /\ \E label \in Labels :
          blocks' = Append(blocks, Block_init(creation_counter, label))
    /\ creation_counter' = creation_counter + 1
    /\ op' = "Block"
    /\ UNCHANGED <<arg, res, block, db, classes>>

\* set_name is called on a definition: by the metaclass for a definition
\* a class body binds, by a collection block for its children
DoSetName ==
    /\ \E i \in 1..Len(blocks), name \in NameSet :
          blocks' = [blocks EXCEPT ![i] = set_name(blocks[i], name)]
    /\ op' = "set_name"
    /\ UNCHANGED <<arg, res, block, db, creation_counter, classes>>

NextName ==
    \/ DoBlockInit
    \/ DoSetName

SpecName == InitDecl /\ [][NextName]_vars

\* C11: once set_name has bound a non-empty name to a definition, no
\* later step changes the name of that definition.
C11_NameBoundOnce ==
    [][\A i \in 1..Len(blocks) :
          blocks[i].name # <<>> => blocks'[i].name = blocks[i].name]_vars

----------------------------------------------------------------------------
(* Struct container.  A struct definition is [child_blocks], an ordered    *)
(* sequence of <<name, leaf block>>.  A mapping is <<"dict", items>> and   *)
(* a struct value <<"StructValue", items>>, items a sequence of            *)
(* <<key, value>> with distinct keys.                                      *)

Dict(items) == <<"dict", items>>
StructValue(items) == <<"StructValue", items>>

HasKey(d, k) == \E i \in 1..Len(d[2]) : d[2][i][1] = k

\* mapping.get(k): None for a key that is not there
dict_get(d, k) ==
    IF HasKey(d, k) THEN d[2][CHOOSE i \in 1..Len(d[2]) : d[2][i][1] = k][2]
    ELSE None

StructBlock_init(children) == [child_blocks |-> children]

\* to_python of a struct: the child's to_python of every declared name
\* the mapping holds, the child's default for the others
StructBlock_to_python(b, rows, value) ==
    LET cs == b.child_blocks
        c == Collect([i \in 1..Len(cs) |->
                 IF HasKey(value, cs[i][1])
                     THEN FieldBlock_to_python(cs[i][2], rows,
                                               dict_get(value, cs[i][1]))
                 ELSE Ok(FieldBlock_get_default(cs[i][2]))])
    IN  IF IsOk(c)
            THEN Ok(StructValue([i \in 1..Len(cs) |-> <<cs[i][1], Val(c)[i]>>]))
        ELSE c

\* clean of a struct: every child cleans its slice; the ValidationErrors
\* are collected by child name and raised once
StructBlock_clean(b, value) ==
    LET cs == b.child_blocks
        rs == [i \in 1..Len(cs) |->
                  FieldBlock_clean(cs[i][2], dict_get(value, cs[i][1]))]
        other == {i \in 1..Len(rs) :
                     ~IsOk(rs[i]) /\ ~IsRaise(rs[i], "ValidationError")}
        failed == SelectSeq([i \in 1..Len(cs) |-> <<cs[i][1], rs[i]>>],
                            LAMBDA e : IsRaise(e[2], "ValidationError"))
        errors == [i \in 1..Len(failed) |->
                      <<failed[i][1], ErrorList(failed[i][2])>>]
    IN  IF other # {} THEN rs[CHOOSE i \in other : \A j \in other : i <= j]
        ELSE IF errors # <<>> THEN Raise("ValidationError", <<"params", errors>>)
        ELSE Ok(StructValue([i \in 1..Len(cs) |-> <<cs[i][1], Val(rs[i])>>]))

\* struct definitions over two children a and b, and one unknown key
Name_z == <<"z">>

CleanStructs ==
    {StructBlock_init(<<<<Name_a, x>>, <<Name_b, y>>>>) :
        x \in LeafBlocks, y \in {FieldBlock_init("CharBlock", TRUE, 1)}}

ConvertStructs ==
    {StructBlock_init(<<<<Name_a, FieldBlock_init(k, TRUE, 0)>>,
                        <<Name_b, FieldBlock_init(j, TRUE, 0)>>>>) :
        k \in {"CharBlock", "DateBlock", "RawHTMLBlock"},
        j \in {"CharBlock", "RawHTMLBlock"}}

RawStructValues == {None, Str(Text_A), Str(Text_2020_02_29)}

\* mappings over the keys a, b and z, in any order of insertion
RawMappings ==
    {Dict(m) : m \in {s \in SeqsUpTo({Name_a, Name_b, Name_z} \X RawStructValues, 3) :
                         \A i, j \in 1..Len(s) : i # j => s[i][1] # s[j][1]}}

InitStruct ==
    /\ InitCommon
    /\ \/ /\ block \in CleanStructs
          /\ \E x \in ElementValues, y \in ElementValues :
                arg = <<"value", StructValue(<<<<Name_a, x>>, <<Name_b, y>>>>)>>
       \/ /\ block \in ConvertStructs
          /\ \E m \in RawMappings : arg = <<"raw", m>>

\* the items of a mapping whose keys the struct declares
Restricted(b, m) ==
    Dict(SelectSeq(m[2], LAMBDA e :
             \E i \in 1..Len(b.child_blocks) : b.child_blocks[i][1] = e[1]))

\* a struct value is cleaned
DoStructClean ==
    /\ Tag(arg) = "value"
    /\ Call("struct_clean", StructBlock_clean(block, arg[2]))

\* a mapping, and the same mapping without its unknown keys, is read
DoStructToPython ==
    /\ Tag(arg) = "raw"
    /\ Call("struct_to_python",
            <<"both", StructBlock_to_python(block, db, arg[2]),
              StructBlock_to_python(block, db, Restricted(block, arg[2]))>>)

NextStruct ==
    \/ DoStructClean
    \/ DoStructToPython

SpecStruct == InitStruct /\ [][NextStruct]_vars

\* what the form field of a child makes of its slice of the value
FieldOutcome(child, v) ==
    CharField_clean(child.required, child.max_length,
                    FieldBlock_value_for_form(child, v))

\* C12: struct clean evaluates every declared child; with failures it
\* raises one ValidationError keyed by exactly the names of all failing
\* children, without failures it returns a struct value of the cleaned
\* values.
C12_StructCleanCollects ==
    op = "struct_clean" =>
        LET cs == block.child_blocks
            failing == {cs[i][1] : i \in {j \in 1..Len(cs) :
                           ~IsOk(FieldOutcome(cs[j][2], dict_get(arg[2], cs[j][1])))}}
        IN  IF failing = {}
                THEN /\ IsOk(res)
                     /\ Tag(Val(res)) = "StructValue"
                     /\ \A i \in 1..Len(cs) :
                            /\ Val(res)[2][i][1] = cs[i][1]
                            /\ PyEq(Val(res)[2][i][2],
                                    Val(FieldOutcome(cs[i][2],
                                                     dict_get(arg[2], cs[i][1]))))
            ELSE /\ IsRaise(res, "ValidationError")
                 /\ {res[3][2][i][1] : i \in 1..Len(res[3][2])} = failing
                 /\ Len(res[3][2]) = Cardinality(failing)

\* both children failed and both names are in the detail
C12_Witness ==
    /\ op = "struct_clean"
    /\ IsRaise(res, "ValidationError")
    /\ {res[3][2][i][1] : i \in 1..Len(res[3][2])} = {Name_a, Name_b}

\* the default a leaf block is declared to have
DeclaredDefault(child) ==
    IF child.kind = "RawHTMLBlock" THEN Safe(<<>>) ELSE None

\* C13: to_python of a mapping equals to_python of the mapping restricted
\* to the declared names; the result's keys are the declared names in
\* declaration order and a declared name the mapping lacks has the
\* child's default.
C13_StructKeyIndependence ==
    op = "struct_to_python" =>
        /\ res[2] = res[3]
        /\ IsOk(res[2]) =>
              LET cs == block.child_blocks
                  items == Val(res[2])[2]
              IN  /\ Len(items) = Len(cs)
                  /\ \A i \in 1..Len(cs) :
                        /\ items[i][1] = cs[i][1]
                        /\ ~HasKey(arg[2], cs[i][1]) =>
                               items[i][2] = DeclaredDefault(cs[i][2])

\* a mapping with the unknown key z first and without b
C13_Witness ==
    /\ op = "struct_to_python"
    /\ block.child_blocks[2][2].kind = "RawHTMLBlock"
    /\ arg[2] = Dict(<<<<Name_z, Str(Text_A)>>, <<Name_a, Str(Text_A)>>>>)
    /\ res[2] = Ok(StructValue(<<<<Name_a, Str(Text_A)>>, <<Name_b, Safe(<<>>)>>>>))

----------------------------------------------------------------------------
(* Errors other than ValidationError inside a list's clean (C14) *)

\* the base FieldBlock, which declares no wrapped field
BareFieldBlock == FieldBlock_init("FieldBlock", TRUE, 0)

\* lists over a child whose clean can fail: directly, or one level down
ConfigLists ==
    {ListBlock_init(c, Unset) :
        c \in {BareFieldBlock,
               FieldBlock_init("CharBlock", TRUE, 1),
               ListBlock_init(BareFieldBlock, Unset),
               ListBlock_init(FieldBlock_init("CharBlock", TRUE, 1), Unset)}}

\* elements offered to a list of lists
NestedValues ==
    {List(<<>>), List(<<Str(Text_A)>>), List(<<Str(<<>>)>>),
     List(<<Str(Text_A), Str(Text_AB)>>)}

InitConfig ==
    /\ InitCommon
    /\ block \in ConfigLists
    /\ \E k \in 0..MaxListLen :
          IF "child" \in DOMAIN block.child
              THEN \E xs \in [1..k -> NestedValues] : arg = List(xs)
          ELSE \E xs \in [1..k -> ElementValues] : arg = List(xs)

\* ListBlock.clean on a list whose child may fail outside validation
DoConfigClean ==
    /\ Tag(arg) = "list"
    /\ Call("clean_config", ListBlock_clean(block, arg))

NextConfig == DoConfigClean

SpecConfig == InitConfig /\ [][NextConfig]_vars

\* the positions at which the child's clean raises something that is not
\* a ValidationError
NotValidation(each) ==
    {i \in 1..Len(each) :
        ~IsOk(each[i]) /\ ~IsRaise(each[i], "ValidationError")}

\* C14: an error of a child's clean that is not a ValidationError leaves
\* the list's clean as that very error, from the first child that raises
\* it, and is never turned into or collected in a ValidationError; only
\* ValidationErrors are collected per position.
C14_ConfigErrorPropagates ==
    op = "clean_config" =>
        LET xs == Items(arg)
            each == [i \in 1..Len(xs) |-> Block_clean(block.child, xs[i])]
            cfg == NotValidation(each)
        IN  IF cfg = {}
                THEN \/ IsOk(res)
                     \/ /\ IsRaise(res, "ValidationError")
                        /\ \E i \in 1..Len(xs) :
                               IsRaise(each[i], "ValidationError")
            ELSE /\ res = each[CHOOSE i \in cfg : \A j \in cfg : i <= j]
                 /\ ~IsRaise(res, "ValidationError")

\* an inner list of a field-less block passed while empty, and the
\* AttributeError of a later, non-empty one left the outer clean
C14_Witness ==
    /\ op = "clean_config"
    /\ block.child = ListBlock_init(BareFieldBlock, Unset)
    /\ Len(Items(arg)) >= 2
    /\ Items(arg)[1] = List(<<>>)
    /\ Items(arg)[2] # List(<<>>)
    /\ IsRaise(res, "AttributeError")

----------------------------------------------------------------------------
(* System checks of a block definition (C15) *)

MaxNameLen == 3      \* characters of a block name offered to the checks

NameAlphabet == {"a", " ", "-", "1"}

Hint_empty == "Block name cannot be empty"
Hint_spaces == "Block names cannot contain spaces"
Hint_dashes == "Block names cannot contain dashes"
Hint_digit == "Block names cannot begin with a digit"

\* checks.Error("Block name %r is invalid" % name, hint, obj, id)
checks_Error(name, hint) ==
    <<"Error", name, hint, "streamfield.block.E001">>

Contains(cs, c) == \E i \in 1..Len(cs) : cs[i] = c

_check_name_first_only(self) ==
    IF self.name = <<>> THEN <<checks_Error(self.name, Hint_empty)>>
    ELSE IF Contains(self.name, " ")
        THEN <<checks_Error(self.name, Hint_spaces)>>
    ELSE IF Contains(self.name, "-")
        THEN <<checks_Error(self.name, Hint_dashes)>>
    ELSE IF IsDigit(self.name[1])
        THEN <<checks_Error(self.name, Hint_digit)>>
    ELSE <<>>
\* Block._check_name: four independent tests, one Error appended by each
_check_name(self) ==
    (IF self.name = <<>>
         THEN <<checks_Error(self.name, Hint_empty)>> ELSE <<>>)
    \o (IF Contains(self.name, " ")
            THEN <<checks_Error(self.name, Hint_spaces)>> ELSE <<>>)
    \o (IF Contains(self.name, "-")
            THEN <<checks_Error(self.name, Hint_dashes)>> ELSE <<>>)
    \o (IF self.name # <<>> /\ IsDigit(self.name[1])
            THEN <<checks_Error(self.name, Hint_digit)>> ELSE <<>>)

\* Block.check: the hook of the base class reports nothing
Block_check(self) == <<>>

\* ListBlock.check: super().check() extended by the child's check()
ListBlock_check(self) == Block_check(self) \o Block_check(self.child)

\* a list block of that name over that child
NamedList(name, child) ==
    [name |-> name, label |-> capfirst(Replace(name, "_", " ")),
     creation_counter |-> child.creation_counter + 1, child |-> child]

InitCheck ==
    /\ InitCommon
    /\ arg = None
    /\ \E k \in 0..MaxNameLen :
          \E cs \in [1..k -> NameAlphabet] :
              LET leaf == set_name(Block_init(0, <<>>), cs)
              IN  block \in {leaf,
                             NamedList(cs, Block_init(0, <<>>)),
                             NamedList(<<"a">>, leaf)}

\* check() of the block: ListBlock.check on a list, Block.check otherwise
DoCheck ==
    Call("check", IF "child" \in DOMAIN block THEN ListBlock_check(block)
                  ELSE Block_check(block))

\* the helper a container runs on a child it names
DoCheckName == Call("_check_name", _check_name(block))

\* the same helper on the child of a list
DoCheckChildName ==
    /\ "child" \in DOMAIN block
    /\ Call("child._check_name", _check_name(block.child))

NextCheck == DoCheck \/ DoCheckName \/ DoCheckChildName

SpecCheck == InitCheck /\ [][NextCheck]_vars

\* the hints a name calls for, one per rule it violates
HintsFor(name) ==
    {h \in {Hint_empty, Hint_spaces, Hint_dashes, Hint_digit} :
        \/ h = Hint_empty /\ name = <<>>
        \/ h = Hint_spaces /\ Contains(name, " ")
        \/ h = Hint_dashes /\ Contains(name, "-")
        \/ h = Hint_digit /\ name # <<>> /\ IsDigit(name[1])}

\* the diagnostics are exactly one non-empty Error per violated rule,
\* told apart by their hints
ReportsRules(diags, name) ==
    /\ {diags[i][3] : i \in 1..Len(diags)} = HintsFor(name)
    /\ \A i, j \in 1..Len(diags) : i # j => diags[i] # diags[j]
    /\ \A i \in 1..Len(diags) : diags[i][1] = "Error" /\ diags[i][3] # ""

\* C15 as stated: check() on a block returns one distinguishable
\* diagnostic for each of the four rules its name violates, and none for a
\* name that violates no rule.
C15_NameDiagnostics_AsStated ==
    op = "check" => ReportsRules(res, block.name)

\* C15: _check_name() on a block returns one distinguishable diagnostic
\* for each of the four rules the name violates (empty, contains a space,
\* contains a dash, starts with a digit) and none for a name violating no
\* rule; check() of a leaf block or of a list block runs no name check and
\* returns no name diagnostic whatever the names are.
C15_NameDiagnostics ==
    /\ op = "_check_name" => ReportsRules(res, block.name)
    /\ op = "child._check_name" => ReportsRules(res, block.child.name)
    /\ op = "check" => res = <<>>

\* a name starting with a digit and holding a space and a dash drew three
\* diagnostics
C15_Witness ==
    /\ op = "_check_name"
    /\ block.name = <<"1", " ", "-">>
    /\ Len(res) = 3

----------------------------------------------------------------------------
(* System checks of a stream field (C16) *)

MaxPalette == 3      \* entries of a stream field's block_types

PaletteNames == {<<"a">>, <<"b">>, <<"a", " ", "b">>, <<"1">>}

\* checks.Warning / checks.Error with a message and an id, no hint
checks_Message(level, id) == <<level, "block_types", "", id>>

W001 == "streamfield.model_fields.W001"
E001 == "streamfield.model_fields.E001"
E002 == "admin.E002"

\* StreamBlock(local_blocks): every (name, block) is bound with set_name
\* and stored under its name
StreamBlock_init(local_blocks) ==
    [child_blocks |->
        OD_update(<<>>, [i \in 1..Len(local_blocks) |->
                            <<local_blocks[i][1],
                              set_name(local_blocks[i][2],
                                       local_blocks[i][1])>>])]

\* StreamField.__init__: block_types kept as a list, wrapped in a root block
StreamField_init(block_types) ==
    [block_types |-> block_types, root_block |-> StreamBlock_init(block_types)]

\* the check of a stream container: every child's check and name check
StreamBlock_check(root) ==
    LET each == [i \in 1..Len(root.child_blocks) |->
                    Block_check(root.child_blocks[i][2])
                    \o _check_name(root.child_blocks[i][2])]
        F[i \in 0..Len(each)] == IF i = 0 THEN <<>> ELSE F[i - 1] \o each[i]
    IN  F[Len(each)]

\* django.db.models.Field.check on a field with a valid name and options
Field_check(self) == <<>>

StreamField_check_block_types_no_duplicates(self) ==
    IF self.block_types = <<>> THEN <<checks_Message("Warning", W001)>>
    ELSE <<>>
\* StreamField._check_block_types
StreamField_check_block_types(self) ==
    IF self.block_types = <<>> THEN <<checks_Message("Warning", W001)>>
    ELSE LET keys == {self.block_types[i][1] :
                         i \in 1..Len(self.block_types)}
         IN  IF Len(self.block_types) # Cardinality(keys)
                 THEN <<checks_Message("Error", E002)>>
             ELSE <<>>

\* StreamField.check
StreamField_check(self) ==
    Field_check(self) \o StreamField_check_block_types(self)
    \o StreamBlock_check(self.root_block)

InitFieldCheck ==
    /\ InitCommon
    /\ arg = None
    /\ \E k \in 0..MaxPalette :
          \E ns \in [1..k -> PaletteNames] :
              block = StreamField_init(
                          [i \in 1..k |-> <<ns[i], Block_init(i - 1, <<>>)>>])

DoFieldCheck == Call("field_check", StreamField_check(block))

NextFieldCheck == DoFieldCheck

SpecFieldCheck == InitFieldCheck /\ [][NextFieldCheck]_vars

\* the diagnostics about the palette among those of a check
PaletteDiagnostics(diags) ==
    {i \in 1..Len(diags) : diags[i][4] \in {W001, E001, E002}}

\* C16: the check of a stream field with an empty palette returns a
\* warning and no error; with two equal declared names it returns an
\* error; with a non-empty palette of pairwise distinct names it returns
\* no diagnostic about the palette.
C16_StreamSelfCheck ==
    op = "field_check" =>
        LET bt == block.block_types
            dup == \E i, j \in 1..Len(bt) : i # j /\ bt[i][1] = bt[j][1]
        IN  /\ bt = <<>> =>
                /\ \E i \in 1..Len(res) : res[i][1] = "Warning"
                /\ \A i \in 1..Len(res) : res[i][1] # "Error"
            /\ dup => \E i \in PaletteDiagnostics(res) : res[i][1] = "Error"
            /\ bt # <<>> /\ ~dup => PaletteDiagnostics(res) = {}

\* the second and third entries share a name and the check reported the
\* duplicate as an error
C16_Witness ==
    /\ op = "field_check"
    /\ Len(block.block_types) = 3
    /\ block.block_types[1][1] # block.block_types[2][1]
    /\ block.block_types[2][1] = block.block_types[3][1]
    /\ \E i \in 1..Len(res) : res[i] = checks_Message("Error", E002)

----------------------------------------------------------------------------
(* Ties of the order index in a list submission (C17) *)

\* how often a value occurs among the elements of a sequence
Occurrences(xs, v) == Cardinality({i \in 1..Len(xs) : xs[i] = v})

\* C17: a submission in which two kept entries carry the same order index
\* is reconciled without an exception, and the result holds exactly the
\* values of the kept entries, whatever they are.
C17_NoCrashOnTies ==
    (op = "value_from_datadict" /\ ~DistinctOrders(arg[3])) =>
        /\ IsOk(res)
        /\ Len(Items(Val(res))) = Cardinality(Kept(arg[3]))
        /\ \A i \in Kept(arg[3]) :
               LET v == FieldBlock_value_from_datadict(block.child,
                                                       arg[3][i][3])
               IN  Occurrences(Items(Val(res)), v) =
                       Cardinality({j \in Kept(arg[3]) :
                           FieldBlock_value_from_datadict(
                               block.child, arg[3][j][3]) = v})

----------------------------------------------------------------------------
(* Null forms of a stored stream (C18) *)

\* C18: to_python of None, of the empty text and of the JSON text null
\* yields an empty stream value without raw_text, and get_prep_value
\* writes that value as the JSON empty array.
C18_NullIsEmptyStream ==
    op = "null_round_trip" =>
        /\ res[2] = Ok(StreamValue(<<>>, None))
        /\ res[3] = Ok(Str(<<"[", "]">>))

\* the text null was read as an empty stream and written back as []
C18_Witness ==
    /\ op = "null_round_trip"
    /\ arg[2] = Str(Text_null)
    /\ IsOk(res[2])
    /\ Val(res[2])[2] = <<>>
    /\ res[3] = Ok(Str(<<"[", "]">>))

----------------------------------------------------------------------------
(* get_default of a constructed block (C19) *)

\* Block(**kwargs): the options become attributes of self.meta; the Meta
\* of the base class declares group and no default
BareBlock_init(default_kw) ==
    IF default_kw = Unset THEN [kind |-> "Block", group |-> <<>>]
    ELSE [kind |-> "Block", group |-> <<>>, default |-> default_kw]

\* a leaf block constructed with or without a default option
FieldBlock_init_default(kind, required, max_length, default_kw) ==
    IF default_kw = Unset THEN FieldBlock_init(kind, required, max_length)
    ELSE [FieldBlock_init(kind, required, max_length)
              EXCEPT !.default = default_kw]

Block_get_default_none(self) ==
    IF "default" \in DOMAIN self THEN Ok(self.default) ELSE Ok(None)
\* Block.get_default: self.meta.default, an AttributeError when the meta
\* holds no default
Block_get_default(self) ==
    IF "default" \in DOMAIN self THEN Ok(self.default)
    ELSE Raise("AttributeError", <<"attr", "default">>)

\* get_default as the class of the block resolves it
get_default(self) ==
    IF "child" \in DOMAIN self THEN Block_get_default(self)
    ELSE IF self.kind = "RawHTMLBlock" THEN Ok(FieldBlock_get_default(self))
    ELSE Block_get_default(self)

\* the defaults a constructor is given: texts for a leaf, lists for a list
LeafDefaults == {Unset, None, Str(<<>>), Str(Text_A), Str(Text_AB)}
ListDefaults == {Unset, List(<<>>), List(<<Str(Text_A)>>)}

InitDefault ==
    /\ InitCommon
    /\ \E d \in LeafDefaults \cup ListDefaults :
          /\ arg = <<"configured", d>>
          /\ \/ block = BareBlock_init(d)
             \/ \E k \in {"CharBlock", "RawHTMLBlock"}, r \in BOOLEAN,
                   m \in {0, 1} :
                    \/ /\ d \in LeafDefaults
                       /\ block = FieldBlock_init_default(k, r, m, d)
                    \/ /\ d \in ListDefaults
                       /\ block = ListBlock_init(FieldBlock_init(k, r, m), d)

DoGetDefault == Call("get_default", get_default(block))

NextDefault == DoGetDefault

SpecDefault == InitDefault /\ [][NextDefault]_vars

\* the default a block is configured with: the constructor option, else
\* what its Meta holds (None on a field block; on a list block the list of
\* the child's default that __init__ leaves there)
Configured(b, d) ==
    IF d # Unset THEN d
    ELSE IF "child" \in DOMAIN b THEN b.default
    ELSE None

\* C19 as stated: get_default() returns the configured default of every
\* block that has one, and raises on a bare Block constructed without one.
C19_GetDefault_AsStated ==
    op = "get_default" =>
        IF "child" \notin DOMAIN block /\ block.kind = "Block"
           /\ arg[2] = Unset
            THEN IsRaise(res, "AttributeError")
        ELSE IsOk(res) /\ PyEq(Val(res), Configured(block, arg[2]))

\* C19: get_default() returns the configured default of every block that
\* has one, a RawHTMLBlock returning it as safe text and returning the
\* empty text when it is None; on a bare Block constructed without a
\* default it raises AttributeError.
C19_GetDefault ==
    op = "get_default" =>
        IF "child" \notin DOMAIN block /\ block.kind = "Block"
           /\ arg[2] = Unset
            THEN IsRaise(res, "AttributeError")
        ELSE IF "child" \notin DOMAIN block /\ block.kind = "RawHTMLBlock"
            THEN /\ IsOk(res)
                 /\ Tag(Val(res)) = "safe" \/ ~IsText(Configured(block, arg[2]))
                 /\ \/ PyEq(Val(res), Configured(block, arg[2]))
                    \/ /\ Configured(block, arg[2]) = None
                       /\ Val(res) = Safe(<<>>)
        ELSE IsOk(res) /\ Val(res) = Configured(block, arg[2])

\* a bare Block without a default raised
C19_Witness ==
    /\ op = "get_default"
    /\ block = BareBlock_init(Unset)
    /\ IsRaise(res, "AttributeError")

----------------------------------------------------------------------------
(* Reference blocks: ModelChoiceBlock and ModelMultipleChoiceBlock (C20) *)

MaxKey == 3          \* primary keys 0..MaxKey are offered as identifiers

\* the rows of the target model while the stored identifiers are read
RefRows == {1, 3}

\* target_model.objects.filter(pk__in=value): the rows whose key is among
\* the identifiers, in the table's primary-key order; filter() raises no
\* DoesNotExist, and a value that is not iterable is a TypeError
objects_filter(rows, value) ==
    IF Tag(value) # "list" THEN Raise("TypeError", None)
    ELSE LET keys == [i \in 1..Len(value[2]) |->
                         CASE Tag(value[2][i]) = "int" -> Ok(value[2][i][2])
                           [] IsText(value[2][i]) -> PyInt(value[2][i][2])
                           [] OTHER -> Raise("TypeError", None)]
         IN  IF \E i \in 1..Len(keys) : ~IsOk(keys[i])
                 THEN keys[CHOOSE i \in 1..Len(keys) : ~IsOk(keys[i])
                              /\ \A j \in 1..(i - 1) : IsOk(keys[j])]
             ELSE LET found == {Val(keys[i]) : i \in 1..Len(keys)} \cap rows
                      ByKey[n \in 0..MaxKey + 1] ==
                          IF n = 0 THEN <<>>
                          ELSE IF (n - 1) \in found
                              THEN Append(ByKey[n - 1], Entity(n - 1))
                          ELSE ByKey[n - 1]
                  IN  Ok(<<"QuerySet", ByKey[MaxKey + 1]>>)

\* ModelMultipleChoiceBlock.to_python
ModelMultipleChoiceBlock_to_python(rows, value) ==
    IF value = None THEN Ok(value)
    ELSE LET r == objects_filter(rows, value)
         IN  IF IsRaise(r, "DoesNotExist") THEN Ok(None) ELSE r

\* ModelMultipleChoiceBlock.get_prep_value: [e.pk for e in value]
ModelMultipleChoiceBlock_get_prep_value(value) ==
    IF value = None THEN Ok(None)
    ELSE IF Tag(value) \in {"list", "QuerySet"}
            /\ \A i \in 1..Len(value[2]) : Tag(value[2][i]) = "entity"
        THEN Ok(List([i \in 1..Len(value[2]) |-> IntV(value[2][i][2])]))
    ELSE Raise("AttributeError", None)

Identifiers == {IntV(k) : k \in 0..MaxKey}

InitReference ==
    /\ op = "init"
    /\ res = None
    /\ db = RefRows
    /\ creation_counter = 0
    /\ blocks = <<>>
    /\ classes = <<>>
    /\ \/ /\ block = FieldBlock_init("ModelChoiceBlock", TRUE, 0)
          /\ \/ \E v \in Identifiers \cup {None, Str(<<"1">>), Str(<<"2">>)} :
                    arg = <<"stored", v>>
             \/ \E v \in {None} \cup {Entity(k) : k \in RefRows} :
                    arg = <<"native", v>>
       \/ /\ block = FieldBlock_init("ModelMultipleChoiceBlock", TRUE, 0)
          /\ \/ arg = <<"stored", None>>
             \/ \E n \in 0..MaxListLen : \E xs \in [1..n -> Identifiers] :
                    arg = <<"stored", List(xs)>>
             \/ arg = <<"native", None>>
             \/ \E n \in 0..2 : \E xs \in [1..n -> RefRows] :
                    arg = <<"native", List([i \in 1..n |-> Entity(xs[i])])>>

\* to_python of a stored identifier, or of a stored list of identifiers
DoReferenceToPython ==
    /\ Tag(arg) = "stored"
    /\ Call("reference_to_python",
            IF block.kind = "ModelChoiceBlock"
                THEN ModelChoiceBlock_to_python(db, arg[2])
            ELSE ModelMultipleChoiceBlock_to_python(db, arg[2]))

\* get_prep_value of an entity, or of a collection of entities
DoReferenceGetPrepValue ==
    /\ Tag(arg) = "native"
    /\ Call("reference_get_prep_value",
            IF block.kind = "ModelChoiceBlock"
                THEN ModelChoiceBlock_get_prep_value(arg[2])
            ELSE ModelMultipleChoiceBlock_get_prep_value(arg[2]))

NextReference == DoReferenceToPython \/ DoReferenceGetPrepValue

SpecReference == InitReference /\ [][NextReference]_vars

\* the primary key an identifier stands for
KeyOf(v) == IF Tag(v) = "int" THEN v[2] ELSE DigitsVal(v[2])

----------------------------------------------------------------------------
(* Searchable content (C21) *)

TextKinds == {"CharBlock", "TextBlock", "RawHTMLBlock"}
NonTextKinds ==
    {"BooleanBlock", "IntegerBlock", "DecimalBlock", "FloatBlock",
     "TimeBlock", "DateBlock", "DateTimeBlock", "ModelChoiceBlock"}

\* django.utils.encoding.force_str: str(value)
force_str(v) ==
    CASE Tag(v) = "None" -> Str(<<"N", "o", "n", "e">>)
      [] IsText(v) -> Str(v[2])
      [] Tag(v) = "int" ->
            Str(IF v[2] < 0 THEN <<"-">> \o NatText(0 - v[2])
                ELSE NatText(v[2]))
      [] OTHER -> Str(<<"?">>)

\* Block.get_searchable_content, overridden by CharBlock and TextBlock
\* ([force_str(value)]); the other leaves inherit the empty list
FieldBlock_get_searchable_content(b, value) ==
    IF b.kind \in TextKinds THEN <<force_str(value)>> ELSE <<>>

RECURSIVE Block_get_searchable_content(_, _)

ListBlock_get_searchable_content_last_only(b, value) ==
    IF Items(value) = <<>> THEN <<>>
    ELSE Block_get_searchable_content(b.child,
                                      Items(value)[Len(Items(value))])
\* ListBlock.get_searchable_content: content.extend(...) per element
ListBlock_get_searchable_content(b, value) ==
    LET xs == Items(value)
        F[i \in 0..Len(xs)] ==
            IF i = 0 THEN <<>>
            ELSE F[i - 1] \o Block_get_searchable_content(b.child, xs[i])
    IN  F[Len(xs)]

Block_get_searchable_content(b, value) ==
    IF "child" \in DOMAIN b THEN ListBlock_get_searchable_content(b, value)
    ELSE FieldBlock_get_searchable_content(b, value)

\* the values a leaf of that kind holds
SearchValues(kind) ==
    CASE kind \in TextKinds -> {Str(Text_A), Str(Text_AB), Str(<<>>)}
      [] kind = "BooleanBlock" -> {Bool(TRUE), Bool(FALSE)}
      [] kind \in {"IntegerBlock", "DecimalBlock", "FloatBlock"} ->
            {IntV(0), IntV(7)}
      [] kind = "TimeBlock" -> {<<"time", 1, 5, 0>>, None}
      [] kind = "DateBlock" -> {<<"date", 2020, 2, 29>>, None}
      [] kind = "DateTimeBlock" -> {<<"datetime", 2020, 2, 29, 1, 5, 0>>, None}
      [] kind = "ModelChoiceBlock" -> {Entity(1), None}

InitSearch ==
    /\ InitCommon
    /\ \E k \in TextKinds \cup NonTextKinds :
          LET leaf == FieldBlock_init(k, TRUE, 0)
          IN  \/ /\ block = ListBlock_init(leaf, List(<<>>))
                 /\ \E n \in 0..MaxListLen :
                       \E xs \in [1..n -> SearchValues(k)] : arg = List(xs)
              \/ /\ k \in {"CharBlock", "IntegerBlock"}
                 /\ block = ListBlock_init(ListBlock_init(leaf, List(<<>>)),
                                           List(<<>>))
                 /\ \E n \in 0..2 :
                       \E xss \in [1..n -> {List(ys) :
                                      ys \in SeqsUpTo(SearchValues(k), 2)}] :
                           arg = List(xss)

DoGetSearchableContent ==
    /\ Tag(arg) = "list"
    /\ Call("get_searchable_content",
            ListBlock_get_searchable_content(block, arg))

NextSearch == DoGetSearchableContent

SpecSearch == InitSearch /\ [][NextSearch]_vars

\* the texts of the elements of a list of lists, row after row
RECURSIVE Flatten(_)
Flatten(xss) ==
    IF xss = <<>> THEN <<>> ELSE Items(Head(xss)) \o Flatten(Tail(xss))

\* C21: the searchable content of a list is the concatenation, in element
\* order, of the child's content for each element: one text per element
\* over a text leaf, nothing over a leaf holding booleans, numbers, dates,
\* times or references.
C21_SearchableContent ==
    op = "get_searchable_content" =>
        LET leaves == IF "child" \in DOMAIN block.child
                          THEN Flatten(Items(arg)) ELSE Items(arg)
            kind == IF "child" \in DOMAIN block.child
                        THEN block.child.child.kind ELSE block.child.kind
        IN  IF kind \in NonTextKinds THEN res = <<>>
            ELSE /\ Len(res) = Len(leaves)
                 /\ \A i \in 1..Len(leaves) : res[i] = Str(leaves[i][2])

\* three texts gave their three texts in order
C21_Witness ==
    /\ op = "get_searchable_content"
    /\ arg = List(<<Str(Text_AB), Str(<<>>), Str(Text_A)>>)
    /\ res = <<Str(Text_AB), Str(<<>>), Str(Text_A)>>

----------------------------------------------------------------------------
(* Labels (C22) *)

\* the label set_name derives from a name
DerivedLabel(name) == capfirst(Replace(name, "_", " "))

\* C22: a block constructed with a label keeps it, and the label of a
\* block constructed without one is, once a name is bound, the label
\* derived from the block's current name (underscores to spaces, first
\* letter capitalised).
C22_LabelFollowsName ==
    \A i \in 1..Len(blocks) :
        blocks[i].name # <<>> =>
            \/ blocks[i].label \in Labels \ {<<>>}
            \/ blocks[i].label = DerivedLabel(blocks[i].name)

----------------------------------------------------------------------------
(* Rendering without a template (C23) *)

\* django.utils.html.conditional_escape: safe text passes, None and other
\* text are converted with str() and escaped
RECURSIVE html_escape(_)
html_escape(cs) ==
    IF cs = <<>> THEN <<>>
    ELSE (CASE cs[1] = "<" -> <<"&", "l", "t", ";">>
            [] cs[1] = ">" -> <<"&", "g", "t", ";">>
            [] cs[1] = "&" -> <<"&", "a", "m", "p", ";">>
            [] OTHER -> <<cs[1]>>) \o html_escape(Tail(cs))

conditional_escape(v) ==
    IF Tag(v) = "safe" THEN v[2] ELSE html_escape(PyStr(v)[2])

\* Block.render_css_classes on the block's own css_classes (none given)
render_css_classes(b) == <<>>

\* CharBlock.render_basic: format_html('<span{1}>{0}</span>', value, css)
\* for a truthy value, None otherwise
CharBlock_render_basic(b, value) ==
    IF Truthy(value)
        THEN Safe(<<"<", "s", "p", "a", "n">> \o render_css_classes(b) \o <<">">>
                  \o conditional_escape(value) \o <<"<", "/", "s", "p", "a", "n", ">">>)
    ELSE None

\* Block.render with no template on the meta: render_basic
CharBlock_render(b, value) == CharBlock_render_basic(b, value)

\* the default element_template and wrap_template of ListBlock.__init__
element_template_open == <<"<", "/", "l", "i">>
element_template_close == <<"<", "/", "l", "i", ">">>

\* ListBlock.render_basic: format_html_join('\n', element_template, ...)
\* inside format_html(wrap_template, children, css)
ListBlock_render_basic(b, value) ==
    LET xs == Items(value)
        one(x) == element_template_open
                  \o conditional_escape(CharBlock_render(b.child, x))
                  \o element_template_close
        J[i \in 0..Len(xs)] ==
            IF i = 0 THEN <<>>
            ELSE IF i = 1 THEN one(xs[1])
            ELSE J[i - 1] \o <<"\n">> \o one(xs[i])
    IN  Safe(<<"<", "u", "l">> \o render_css_classes(b) \o <<">">>
             \o J[Len(xs)] \o <<"<", "/", "u", "l", ">">>)

RenderTexts == {Str(<<"h", "i">>), Str(Text_A), Str(<<"<">>), Str(Text_AB)}

InitRender ==
    /\ InitCommon
    /\ block = ListBlock_init(FieldBlock_init("CharBlock", TRUE, 0), Unset)
    /\ \/ \E n \in 0..MaxListLen :
             \E xs \in [1..n -> RenderTexts] : arg = List(xs)
       \/ \E v \in RenderTexts : arg = <<"leaf", v>>

\* ListBlock(CharBlock).render(values, context=None)
DoListRender ==
    /\ Tag(arg) = "list"
    /\ Call("list_render", ListBlock_render_basic(block, arg))

\* CharBlock().render(value, context=None)
DoCharRender ==
    /\ Tag(arg) = "leaf"
    /\ Call("char_render", CharBlock_render(block.child, arg[2]))

NextRender == DoListRender \/ DoCharRender

SpecRender == InitRender /\ [][NextRender]_vars

\* the mark-up the tests expect for a list of texts, white space between
\* elements left out
RECURSIVE ExpectedItems(_)
ExpectedItems(xs) ==
    IF xs = <<>> THEN <<>>
    ELSE <<"<", "l", "i", ">">> \o html_escape(Head(xs)[2]) \o <<"<", "/", "l", "i", ">">>
         \o ExpectedItems(Tail(xs))

WithoutNewlines(cs) == SelectSeq(cs, LAMBDA c : c # "\n")

\* C23: with the default templates a list of n texts renders as one ul
\* element holding n li elements in the order of the values, the i-th
\* holding the i-th text; a CharBlock renders a non-empty text as that
\* text.
C23_RenderList ==
    /\ op = "list_render" =>
          /\ IsText(res)
          /\ WithoutNewlines(res[2]) =
                 <<"<", "u", "l", ">">> \o ExpectedItems(Items(arg)) \o <<"<", "/", "u", "l", ">">>
    /\ op = "char_render" =>
          /\ IsText(res)
          /\ res[2] = html_escape(arg[2][2])

----------------------------------------------------------------------------
(* validators.RelURLValidator (C24) *)

MaxUrlLen == 3       \* characters of the short texts offered to the validator

LowerLetters == <<"a", "b", "c", "d", "e", "f", "g", "h", "i", "j", "k", "l", "m", "n", "o", "p", "q", "r", "s", "t", "u", "v", "w", "x", "y", "z">>
UpperLetters == <<"A", "B", "C", "D", "E", "F", "G", "H", "I", "J", "K", "L", "M", "N", "O", "P", "Q", "R", "S", "T", "U", "V", "W", "X", "Y", "Z">>

IsLower(c) == \E i \in 1..26 : LowerLetters[i] = c
IsUpper(c) == \E i \in 1..26 : UpperLetters[i] = c
ToLower(c) ==
    IF IsUpper(c) THEN LowerLetters[CHOOSE i \in 1..26 : UpperLetters[i] = c]
    ELSE c
IsAlnum(c) == IsLower(c) \/ IsUpper(c) \/ IsDigit(c)

\* [\w\/$\-.+!*'():;?@&#]
PathChar(c) ==
    \/ IsAlnum(c) \/ c = "_"
    \/ c \in {"/", "$", "-", ".", "+", "!", "*", "'", "(", ")", ":", ";",
              "?", "@", "&", "#"}
\* [a-z0-9\.\-\+] with re.IGNORECASE
SchemeChar(c) == IsAlnum(c) \/ c \in {".", "-", "+"}
\* [^\s:@/]
UserChar(c) == c \notin {" ", "\n", "\t", ":", "@", "/"}
\* [0-9a-f:\.] with re.IGNORECASE
IPv6Char(c) ==
    \/ IsDigit(c) \/ c \in {":", "."}
    \/ ToLower(c) \in {"a", "b", "c", "d", "e", "f"}

AllPath(cs) == \A i \in 1..Len(cs) : PathChar(cs[i])
AllUser(cs) == \A i \in 1..Len(cs) : UserChar(cs[i])

\* (?:[a-z0-9\.\-\+]*)://
MatchScheme(cs) ==
    /\ Len(cs) >= 3
    /\ SubSeq(cs, Len(cs) - 2, Len(cs)) = <<":", "/", "/">>
    /\ \A i \in 1..(Len(cs) - 3) : SchemeChar(cs[i])

\* [^\s:@/]+(?::[^\s:@/]*)?@
MatchUserPass(cs) ==
    /\ Len(cs) >= 2
    /\ cs[Len(cs)] = "@"
    /\ LET parts == Split(SubSeq(cs, 1, Len(cs) - 1), ":")
       IN  /\ Len(parts) \in {1, 2}
           /\ parts[1] # <<>>
           /\ \A i \in 1..Len(parts) : AllUser(parts[i])

\* 25[0-5]|2[0-4]\d|[0-1]?\d?\d
IsOctet(cs) ==
    /\ DigitRun(cs, 1, 3)
    /\ Len(cs) = 3 => (cs[1] \in {"0", "1"} \/ (cs[1] = "2" /\ DigitsVal(cs) <= 255))

IsIPv4(cs) ==
    LET ps == Split(cs, ".")
    IN  Len(ps) = 4 /\ \A i \in 1..4 : IsOctet(ps[i])

IsIPv6Literal(cs) ==
    /\ Len(cs) >= 3
    /\ cs[1] = "[" /\ cs[Len(cs)] = "]"
    /\ \A i \in 2..(Len(cs) - 1) : IPv6Char(cs[i])

\* a label of hostname_re / domain_re / tld_re
LabelChars(cs, digits) ==
    \A i \in 1..Len(cs) :
        IsLower(cs[i]) \/ IsUpper(cs[i]) \/ cs[i] = "-"
        \/ (digits /\ IsDigit(cs[i]))
NoEdgeDash(cs) == cs # <<>> /\ cs[1] # "-" /\ cs[Len(cs)] # "-"

IsTld(cs) ==
    \/ Len(cs) >= 2 /\ Len(cs) <= 63 /\ LabelChars(cs, FALSE) /\ NoEdgeDash(cs)
    \/ /\ Len(cs) >= 5 /\ Len(cs) <= 63
       /\ [i \in 1..4 |-> ToLower(cs[i])] = <<"x", "n", "-", "-">>
       /\ \A i \in 5..Len(cs) : IsAlnum(cs[i])

\* hostname_re + domain_re + tld_re, or localhost
IsHostName(cs) ==
    \/ [i \in 1..Len(cs) |-> ToLower(cs[i])] = <<"l", "o", "c", "a", "l", "h", "o", "s", "t">>
    \/ LET body == IF cs # <<>> /\ cs[Len(cs)] = "."
                       THEN SubSeq(cs, 1, Len(cs) - 1) ELSE cs
           ls == Split(body, ".")
       IN  /\ Len(ls) >= 2
           /\ Len(ls[1]) >= 1 /\ Len(ls[1]) <= 63
           /\ LabelChars(ls[1], TRUE) /\ NoEdgeDash(ls[1])
           /\ \A i \in 2..(Len(ls) - 1) :
                  /\ Len(ls[i]) >= 1 /\ Len(ls[i]) <= 63
                  /\ LabelChars(ls[i], TRUE) /\ NoEdgeDash(ls[i])
           /\ IsTld(ls[Len(ls)])

IsHost(cs) == IsIPv4(cs) \/ IsIPv6Literal(cs) \/ IsHostName(cs)

\* host(?::\d{2,5})?
MatchHostPort(cs) ==
    \/ IsHost(cs)
    \/ \E k \in 1..Len(cs) :
          /\ cs[k] = ":"
          /\ IsHost(SubSeq(cs, 1, k - 1))
          /\ DigitRun(SubSeq(cs, k + 1, Len(cs)), 2, 5)

\* RelURLValidator.regex: optional scheme, user:pass and host:port, then a
\* non-empty resource path, to the end of the text
regex_search(cs) ==
    \E i, j, k \in 0..Len(cs) :
        /\ i <= j /\ j <= k /\ k < Len(cs)
        /\ i = 0 \/ MatchScheme(SubSeq(cs, 1, i))
        /\ j = i \/ MatchUserPass(SubSeq(cs, i + 1, j))
        /\ k = j \/ MatchHostPort(SubSeq(cs, j + 1, k))
        /\ AllPath(SubSeq(cs, k + 1, Len(cs)))

\* the first position at which the word occurs in the text, 0 for none
Find(cs, word) ==
    IF \E p \in 1..Len(cs) : HasAt(cs, p, word)
        THEN CHOOSE p \in 1..Len(cs) :
                 HasAt(cs, p, word) /\ \A q \in 1..(p - 1) : ~HasAt(cs, q, word)
    ELSE 0

\* urllib.parse.urlsplit(value).netloc: after a scheme and '//', up to the
\* next '/', '?' or '#'; unbalanced brackets are a ValueError
urlsplit_netloc(cs) ==
    LET c == Find(cs, <<":">>)
        hasScheme == /\ c > 1
                     /\ IsLower(ToLower(cs[1]))
                     /\ \A i \in 1..(c - 1) : SchemeChar(cs[i])
        rest == IF hasScheme THEN SubSeq(cs, c + 1, Len(cs)) ELSE cs
    IN  IF ~HasAt(rest, 1, <<"/", "/">>) THEN Ok(<<>>)
        ELSE LET after == SubSeq(rest, 3, Len(rest))
                 ends == {p \in 1..Len(after) : after[p] \in {"/", "?", "#"}}
                 e == IF ends = {} THEN Len(after)
                      ELSE (CHOOSE p \in ends : \A q \in ends : p <= q) - 1
                 netloc == SubSeq(after, 1, e)
                 open == \E p \in 1..Len(netloc) : netloc[p] = "["
                 close == \E p \in 1..Len(netloc) : netloc[p] = "]"
             IN  IF open # close THEN Raise("ValueError", None)
                 ELSE Ok(netloc)

\* urlunsplit(urlsplit(value)) on ASCII text: the scheme in lower case, an
\* empty fragment and an empty query dropped
url_rebuilt(cs) ==
    LET c == Find(cs, <<":">>)
        lowered == IF c > 1 /\ \A i \in 1..(c - 1) : SchemeChar(cs[i])
                       THEN [i \in 1..Len(cs) |->
                                IF i < c THEN ToLower(cs[i]) ELSE cs[i]]
                   ELSE cs
        h == Find(lowered, <<"#">>)
        noFrag == IF h # 0 /\ h = Len(lowered)
                      THEN SubSeq(lowered, 1, h - 1) ELSE lowered
        q == Find(noFrag, <<"?">>)
    IN  IF h \in {0, Len(lowered)} /\ q # 0 /\ q = Len(noFrag)
            THEN SubSeq(noFrag, 1, q - 1)
        ELSE noFrag

\* re.search(r'^\[(.+)\](?::\d{2,5})?$', netloc)
host_match(netloc) ==
    /\ Len(netloc) >= 3
    /\ netloc[1] = "["
    /\ \E k \in 3..Len(netloc) :
          /\ netloc[k] = "]"
          /\ \/ k = Len(netloc)
             \/ /\ netloc[k + 1] = ":"
                /\ DigitRun(SubSeq(netloc, k + 2, Len(netloc)), 2, 5)

schemes == {<<"h", "t", "t", "p">>, <<"h", "t", "t", "p", "s">>, <<"f", "t", "p">>, <<"f", "t", "p", "s">>}

Invalid == Raise("ValidationError", <<"code", "invalid">>)

\* RelURLValidator.__call__
RelURLValidator_call(value) ==
    LET p == Find(value, <<":", "/", "/">>)
        scheme == [i \in 1..(p - 1) |-> ToLower(value[i])]
    IN  IF p # 0 /\ scheme \notin schemes THEN Invalid
        ELSE IF ~regex_search(value) THEN
            \* the retry for an IDN domain: split, punycode, rebuild, match
            IF value = <<>> THEN Invalid
            ELSE IF ~IsOk(urlsplit_netloc(value)) THEN Invalid
            ELSE IF regex_search(url_rebuilt(value)) THEN Ok(None)
            ELSE Invalid
        ELSE LET netloc == urlsplit_netloc(value)
             IN  IF ~IsOk(netloc) THEN netloc
                 \* validate_ipv6_address is not a name of the module
                 ELSE IF host_match(Val(netloc))
                     THEN Raise("NameError", <<"name", "validate_ipv6_address">>)
                 ELSE IF Len(Val(netloc)) > 253 THEN Invalid
                 ELSE Ok(None)

UrlAlphabet == {"a", "/", "#", "~", "@", ":", "\\", "1"}

\* the URLs of the repository's tests and others of the same kinds
UrlTexts ==
    {<<"h", "t", "t", "p", ":", "/", "/", "l", "o", "c", "a", "l", "h", "o", "s", "t", ":", "8", "0", "0", "0", "/", "d", "j", "a", "n", "g", "o", "-", "a", "d", "m", "i", "n", "/", "t", "e", "s", "t", "e", "r", "/", "p", "a", "g", "e", "/", "1", "/", "c", "h", "a", "n", "g", "e", "/">>,
     <<"/", "p", "a", "g", "e", "/", "1", "/", "c", "h", "a", "n", "g", "e", "/">>,
     <<"p", "a", "g", "e", "/", "1", "/", "c", "h", "a", "n", "g", "e", "/">>,
     <<"#", "p", "a", "g", "e">>,
     <<"/", "p", "a", "g", "e", "\\", "/", "1", "/", "c", "h", "a", "n", "g", "e", "/">>,
     <<"/", "p", "a", "g", "e", "~", "d", "o", "p", "/", "1", "/", "c", "h", "a", "n", "g", "e", "/">>,
     <<"h", "t", "t", "p", ":", "/", "/", "[", ":", ":", "1", "]", "/">>,
     <<"h", "t", "t", "p", "s", ":", "/", "/", "1", "0", ".", "0", ".", "0", ".", "1", ":", "8", "0", "/", "a">>,
     <<"f", "t", "p", ":", "/", "/", "a", ".", "b", "c", "/", "x">>,
     <<"g", "o", "p", "h", "e", "r", ":", "/", "/", "a", ".", "b", "c", "/", "x">>,
     <<"H", "T", "T", "P", ":", "/", "/", "a", ".", "b", "c">>,
     <<"a", "~", "b", "@", "x">>}

InitUrl ==
    /\ InitCommon
    /\ block = None
    /\ \/ \E v \in UrlTexts : arg = Str(v)
       \/ \E n \in 0..MaxUrlLen :
             \E v \in [1..n -> UrlAlphabet] : arg = Str(v)

\* the validator is called on a text
DoValidateUrl == Call("validate_url", RelURLValidator_call(arg[2]))

NextUrl == DoValidateUrl

SpecUrl == InitUrl /\ [][NextUrl]_vars

\* the text is an absolute URL: an allowed scheme, '://' and a host
IsAbsoluteUrl(cs) ==
    LET p == Find(cs, <<":", "/", "/">>)
    IN  /\ p # 0
        /\ [i \in 1..(p - 1) |-> ToLower(cs[i])] \in schemes
        /\ \E k \in (p + 3)..Len(cs) :
              /\ MatchHostPort(SubSeq(cs, p + 3, k))
              /\ AllPath(SubSeq(cs, k + 1, Len(cs)))

\* C24: the validator accepts an absolute URL with an allowed scheme, an
\* absolute or relative path and a fragment-only reference, and rejects with
\* ValidationError a text holding a character outside the path characters
\* and a text whose part before '://' is not an allowed scheme.
C24_RelUrlValidator ==
    op = "validate_url" =>
        LET v == arg[2]
            p == Find(v, <<":", "/", "/">>)
        IN  /\ IsAbsoluteUrl(v) => res = Ok(None)
            /\ (v # <<>> /\ AllPath(v) /\ p = 0) => res = Ok(None)
            /\ (\E i \in 1..Len(v) : ~PathChar(v[i]) /\ v[i] \notin {"[", "]"})
                   => IsRaise(res, "ValidationError")
            /\ (p # 0 /\ [i \in 1..(p - 1) |-> ToLower(v[i])] \notin schemes)
                   => IsRaise(res, "ValidationError")

----------------------------------------------------------------------------
(* Block.all_blocks over the dependencies of a block (C25) *)

MaxDepth == 3        \* levels of dependencies below a block
\* how many dependencies one block has: none (a leaf), one (a list), two
DepCounts == {0, 1, 2}

\* the shapes of dependency trees: a shape is the sequence of the shapes of
\* the dependencies; a leaf block has none, a list block has its child
RECURSIVE Shapes(_)
Shapes(d) ==
    IF d = 0 THEN {<<>>}
    ELSE UNION {[1..n -> Shapes(d - 1)] : n \in DepCounts}

\* the block objects of a shape; a block is known by the path that leads
\* to it, and carries self.dependencies
RECURSIVE BlockTree(_, _)
BlockTree(shape, path) ==
    [id |-> path,
     dependencies |-> [i \in 1..Len(shape) |->
                          BlockTree(shape[i], Append(path, i))]]

Block_all_blocks_direct_only(self) == <<self>> \o self.dependencies
\* Block.all_blocks: self, then the all_blocks() of each dependency
RECURSIVE Block_all_blocks(_)
Block_all_blocks(self) ==
    LET deps == self.dependencies
        R[i \in 0..Len(deps)] ==
            IF i = 0 THEN <<self>>
            ELSE R[i - 1] \o Block_all_blocks(deps[i])
    IN  R[Len(deps)]

InitAllBlocks ==
    /\ InitCommon
    /\ arg = None
    /\ \E shape \in Shapes(MaxDepth) : block = BlockTree(shape, <<>>)

DoAllBlocks == Call("all_blocks", Block_all_blocks(block))

NextAllBlocks == DoAllBlocks

SpecAllBlocks == InitAllBlocks /\ [][NextAllBlocks]_vars

RECURSIVE NodeCount(_)
NodeCount(b) ==
    LET deps == b.dependencies
        N[i \in 0..Len(deps)] ==
            IF i = 0 THEN 1 ELSE N[i - 1] + NodeCount(deps[i])
    IN  N[Len(deps)]

\* the block a path leads to
RECURSIVE BlockAt(_, _)
BlockAt(b, path) ==
    IF path = <<>> THEN b
    ELSE BlockAt(b.dependencies[Head(path)], Tail(path))

\* pre-order of two paths: a block before the blocks below it, an earlier
\* dependency (with all below it) before a later one
RECURSIVE PathBefore(_, _)
PathBefore(p, q) ==
    IF p = <<>> THEN q # <<>>
    ELSE IF q = <<>> THEN FALSE
    ELSE IF Head(p) = Head(q) THEN PathBefore(Tail(p), Tail(q))
    ELSE Head(p) < Head(q)

\* C25: all_blocks() starts with the block itself and lists every block
\* it depends on, directly or not, exactly once and in pre-order; without
\* dependencies it is [self].
C25_AllBlocksPreOrder ==
    op = "all_blocks" =>
        /\ res[1] = block
        /\ Len(res) = NodeCount(block)
        /\ \A i \in 1..Len(res) : res[i] = BlockAt(block, res[i].id)
        /\ \A i, j \in 1..Len(res) :
               i < j => PathBefore(res[i].id, res[j].id)
        /\ block.dependencies = <<>> => res = <<block>>

\* a block with two dependencies, the first of them a list over a leaf
C25_Witness ==
    /\ op = "all_blocks"
    /\ Len(block.dependencies) = 2
    /\ Len(block.dependencies[1].dependencies) = 1
    /\ Len(res) >= 4
    /\ res[2] = block.dependencies[1]
    /\ res[3] = block.dependencies[1].dependencies[1]

----------------------------------------------------------------------------
(* Creation sequence: every Block.__init__ takes the class-wide counter     *)

\* Block.__init__: definition_prefix = 'blockdef-%d' % self.creation_counter
definition_prefix(self) ==
    <<"b","l","o","c","k","d","e","f","-">> \o NatText(self.creation_counter)

ConversionNames == {"to_python", "clean", "get_prep_value"}

\* ListBlock.__init__: super().__init__() counts the list block first; a
\* child given as a class is instantiated afterwards and counts next, a
\* child given as an instance was counted when it was made
DoListBlockInit ==
    /\ \/ /\ creation_counter + 1 < MaxBlocks
          /\ blocks' = blocks \o <<Block_init(creation_counter, <<>>),
                                   Block_init(creation_counter + 1, <<>>)>>
          /\ creation_counter' = creation_counter + 2
          /\ res' = Ok(Str(<<"c","l","a","s","s">>))
       \/ /\ creation_counter < MaxBlocks
          /\ Len(blocks) > 0
          /\ blocks' = Append(blocks, Block_init(creation_counter, <<>>))
          /\ creation_counter' = creation_counter + 1
          /\ res' = Ok(Str(<<"i","n","s","t","a","n","c","e">>))
    /\ op' = "ListBlock"
    /\ UNCHANGED <<arg, block, db, classes>>

\* ModelChoiceBlockBase.__init__: super().__init__() runs, and counts the
\* block, before the test of target_model ends the construction
DoModelChoiceBlockInit ==
    /\ creation_counter < MaxBlocks
    /\ blocks' = Append(blocks, Block_init(creation_counter, <<>>))
    /\ creation_counter' = creation_counter + 1
    /\ op' = "ModelChoiceBlock"
    /\ res' = Raise("NameError", <<"M","o","d","e","l">>)
    /\ UNCHANGED <<arg, block, db, classes>>

\* to_python, clean or get_prep_value is called on a constructed block:
\* none of them reads or writes Block.creation_counter
DoConversion ==
    /\ \E i \in 1..Len(blocks), o \in ConversionNames :
          arg' = <<"call", o, i>>
    /\ UNCHANGED <<op, res, block, db, creation_counter, blocks, classes>>

NextCreate ==
    \/ DoBlockInit
    \/ DoListBlockInit
    \/ DoModelChoiceBlockInit
    \/ DoConversion

SpecCreate == InitDecl /\ [][NextCreate]_vars

\* C26: after any sequence of constructions and conversions, the i-th block
\* constructed holds the counter i - 1, the class-wide counter equals the
\* number of blocks constructed, and no two definition prefixes are equal.
C26_CreationSequence ==
    /\ creation_counter = Len(blocks)
    /\ \A i \in 1..Len(blocks) : blocks[i].creation_counter = i - 1
    /\ \A i, j \in 1..Len(blocks) :
          i < j =>
             /\ blocks[i].creation_counter < blocks[j].creation_counter
             /\ definition_prefix(blocks[i]) # definition_prefix(blocks[j])

\* a list block constructed its child from a class after an earlier block,
\* and a conversion has been called
C26_Witness ==
    /\ op = "ListBlock"
    /\ res = Ok(Str(<<"c","l","a","s","s">>))
    /\ Len(blocks) >= 3
    /\ Tag(arg) = "call"

----------------------------------------------------------------------------
(* Model attribute round trip: the value to_python returned is given back   *)
(* to to_python                                                            *)

\* ListFieldBase.to_python: a ListValue is no list and no str
ListFieldBase_to_python(field, rows, value) ==
    IF value = None \/ (IsText(value) /\ value[2] = <<>>) THEN Ok(List(<<>>))
    ELSE IF Tag(value) = "list" THEN Ok(value)
    ELSE IF IsText(value) THEN
        LET unpacked_value == json_loads(value[2])
        IN  IF IsRaise(unpacked_value, "ValueError") THEN Ok(List(<<value>>))
            ELSE IF Val(unpacked_value) = None THEN Ok(List(<<>>))
            ELSE ListBlock_to_python(field.root_block, rows,
                                     Val(unpacked_value))
    ELSE Raise("TypeError", None)

\* ListFieldBase.__init__ over a CharBlock
TheListField ==
    [root_block |-> ListBlock_init(FieldBlock_init("CharBlock", TRUE, 0), Unset)]

\* Creator.__set__ and from_db_value both store field.to_python(value)
Field_to_python(field, rows, value) ==
    IF field = TheListField THEN ListFieldBase_to_python(field, rows, value)
    ELSE StreamField_to_python(field, rows, value)

AttrElements ==
    SeqsUpTo({Str(<<>>), Str(Text_A), Str(Text_B), Str(Text_AB)}, MaxPairs)
AttrPairs ==
    SeqsUpTo({Pair(<<"c">>, Str(Text_A)), Pair(<<"c">>, Str(<<>>)),
              Pair(<<"d">>, None), Pair(<<"d">>, Str(Text_2020_02_29))},
             MaxPairs)

\* what is assigned to the attribute: null, the empty text, JSON null,
\* text that is no JSON, JSON text of a value, a native value
AcceptedValues(field) ==
    {None, Str(<<>>), Str(Text_null), Str(Text_not_json)}
    \cup (IF field = TheListField
              THEN {List(xs) : xs \in AttrElements}
                   \cup {Val(json_dumps(List(xs))) : xs \in AttrElements}
          ELSE {StreamValue(ps, None) : ps \in AttrPairs}
               \cup {Val(json_dumps(List(ps))) : ps \in AttrPairs})

InitAttr ==
    /\ InitCommon
    /\ arg = None
    /\ block \in {TheStreamField, TheListField}

\* a value is assigned: the attribute holds to_python of it
DoAssign ==
    /\ \E value \in AcceptedValues(block) :
          /\ arg' = value
          /\ res' = Field_to_python(block, db, value)
    /\ op' = "assign"
    /\ UNCHANGED <<block, db, creation_counter, blocks, classes>>

\* the attribute is read and the value read is assigned back
DoReadBack ==
    /\ op \in {"assign", "read_back"}
    /\ IsOk(res)
    /\ arg' = Val(res)
    /\ res' = Field_to_python(block, db, Val(res))
    /\ op' = "read_back"
    /\ UNCHANGED <<block, db, creation_counter, blocks, classes>>

NextAttr ==
    \/ DoAssign
    \/ DoReadBack

SpecAttr == InitAttr /\ [][NextAttr]_vars

\* C27: assigning the value just read back to the attribute succeeds and
\* leaves an equivalent value stored; every accepted value is converted
\* without error in the first place.
C27_AttributeRoundTrip ==
    /\ op = "assign" => IsOk(res)
    /\ op = "read_back" => IsOk(res) /\ PyEq(Val(res), arg)

----------------------------------------------------------------------------
(* The palette of a stream field: block types given to the constructor or   *)
(* declared on a subclass, and deconstruct()                                *)

\* StreamField.__init__ on a class whose block_types attribute is
\* cls_block_types: the attribute is replaced by a non-empty argument, the
\* root block is built from the argument
StreamField_subclass_init(cls_block_types, block_types) ==
    [block_types |-> IF block_types # <<>> THEN block_types
                     ELSE cls_block_types,
     root_block |-> StreamBlock_init(block_types)]

\* StreamField.deconstruct: kwargs['block_types'], the items of the palette
StreamField_deconstruct(self) == self.root_block.child_blocks

\* the names of a list of (name, block) in order
PairNames(pairs) == [i \in 1..Len(pairs) |-> pairs[i][1]]

\* lists of (name, block) with pairwise distinct names
BlockTypeLists ==
    {[i \in 1..Len(ns) |-> <<ns[i], Block_init(i - 1, <<>>)>>] :
        ns \in {xs \in SeqsUpTo(PaletteNames, MaxPalette) :
                   \A i, j \in 1..Len(xs) : i # j => xs[i] # xs[j]}}

InitPalette ==
    /\ InitCommon
    /\ block = None
    /\ \E cls \in BlockTypeLists, given \in BlockTypeLists :
          arg = <<"field", cls, given>>

\* the field is constructed
DoStreamFieldInit ==
    /\ op = "init"
    /\ block' = StreamField_subclass_init(arg[2], arg[3])
    /\ op' = "StreamField"
    /\ UNCHANGED <<arg, res, db, creation_counter, blocks, classes>>

\* a migration asks the field for its constructor arguments
DoDeconstruct ==
    /\ op = "StreamField"
    /\ res' = StreamField_deconstruct(block)
    /\ op' = "deconstruct"
    /\ UNCHANGED <<arg, block, db, creation_counter, blocks, classes>>

\* the field is constructed again from what deconstruct reported
DoReconstruct ==
    /\ op = "deconstruct"
    /\ block' = StreamField_subclass_init(arg[2], res)
    /\ op' = "reconstruct"
    /\ UNCHANGED <<arg, res, db, creation_counter, blocks, classes>>

NextPalette ==
    \/ DoStreamFieldInit
    \/ DoDeconstruct
    \/ DoReconstruct

SpecPalette == InitPalette /\ [][NextPalette]_vars

\* C28: the palette of the root block has the names of the field's
\* block_types in order, however they were given; deconstruct reports that
\* palette, and the field made from the report has the same palette.
C28_PaletteIsBlockTypes ==
    /\ op \in {"StreamField", "deconstruct", "reconstruct"} =>
          PairNames(block.root_block.child_blocks)
             = PairNames(block.block_types)
    /\ op \in {"deconstruct", "reconstruct"} =>
          PairNames(res) = PairNames(block.root_block.child_blocks)

----------------------------------------------------------------------------
(* escape_script: closing script tags inside a script block                 *)

MaxPieces == 4       \* pieces a text is put together from

Text_slash_script == <<"/", "s", "c", "r", "i", "p", "t", ">">>
Text_close_script == <<"<">> \o Text_slash_script

\* the end of the run of dashes that starts at p (p - 1 when there is none)
DashEnd(cs, p) ==
    IF p <= Len(cs) /\ cs[p] = "-"
        THEN CHOOSE q \in p..Len(cs) :
                 /\ \A r \in p..q : cs[r] = "-"
                 /\ (q = Len(cs) \/ cs[q + 1] # "-")
    ELSE p - 1

\* SCRIPT_RE = '<(-*)/script>' matches at p
SCRIPT_RE_match(cs, p) ==
    /\ cs[p] = "<"
    /\ HasAt(cs, DashEnd(cs, p + 1) + 1, Text_slash_script)

\* SCRIPT_RE.sub('<-\1/script>', text, count): the matches are replaced
\* from the left, none overlapping another; count 0 replaces all
RECURSIVE SCRIPT_RE_sub(_, _, _)
SCRIPT_RE_sub(cs, p, count) ==
    IF p > Len(cs) THEN <<>>
    ELSE IF SCRIPT_RE_match(cs, p) THEN
        LET e == DashEnd(cs, p + 1) + Len(Text_slash_script)
        IN  <<"<", "-">> \o SubSeq(cs, p + 1, e)
            \o (IF count = 1 THEN SubSeq(cs, e + 1, Len(cs))
                ELSE SCRIPT_RE_sub(cs, e + 1, IF count = 0 THEN 0
                                               ELSE count - 1))
    ELSE <<cs[p]>> \o SCRIPT_RE_sub(cs, p + 1, count)

\* escape_script replacing only the first closing tag
escape_script_first_only(text) == SCRIPT_RE_sub(text, 1, 1)

\* utils.escape_script
escape_script(text) == SCRIPT_RE_sub(text, 1, 0)

Pieces ==
    {<<"<">>, <<"-">>, <<"/">>, <<"x">>, Text_slash_script, Text_close_script}

RECURSIVE Joined(_)
Joined(ps) == IF ps = <<>> THEN <<>> ELSE Head(ps) \o Joined(Tail(ps))

InitEscape ==
    /\ InitCommon
    /\ block = None
    /\ \E ps \in SeqsUpTo(Pieces, MaxPieces) : arg = <<"text", Joined(ps)>>

\* ListBlock.html_declarations escapes the member template it embeds
DoEscapeScript ==
    /\ Tag(arg) = "text"
    /\ Call("escape_script", escape_script(arg[2]))

NextEscape == DoEscapeScript

SpecEscape == InitEscape /\ [][NextEscape]_vars

\* where a '<', dashes and '/script>' start in a text
TagStarts(cs) ==
    {p \in 1..Len(cs) :
        /\ cs[p] = "<"
        /\ \E k \in 0..Len(cs) :
              /\ \A r \in (p + 1)..(p + k) : r <= Len(cs) /\ cs[r] = "-"
              /\ HasAt(cs, p + k + 1, Text_slash_script)}

\* where the escaped text has the dash added for the tag starting at p
AddedAt(cs, p) == p + Cardinality({q \in TagStarts(cs) : q <= p})

\* C29: the escaped text holds no '</script>'; it is the text with one dash
\* added behind the '<' of every '<', dashes, '/script>', every other
\* character kept, so removing those dashes gives the text back.
C29_EscapeScript ==
    op = "escape_script" =>
        LET t == arg[2]
            added == {AddedAt(t, p) : p \in TagStarts(t)}
        IN  /\ \A p \in 1..Len(res) : ~HasAt(res, p, Text_close_script)
            /\ Len(res) = Len(t) + Cardinality(TagStarts(t))
            /\ \A q \in 1..Len(res) :
                  res[q] = IF q \in added THEN "-"
                           ELSE t[q - Cardinality({a \in added : a < q})]

\* a text with a bare closing tag and an already escaped one
C29_Witness ==
    /\ op = "escape_script"
    /\ Cardinality(TagStarts(arg[2])) >= 2
    /\ \E p \in TagStarts(arg[2]) : arg[2][p + 1] = "-"
    /\ \E p \in TagStarts(arg[2]) : arg[2][p + 1] = "/"

----------------------------------------------------------------------------
(* Constructing a model-reference block                                     *)

\* the names the module field_block binds at import (its import statements)
field_block_globals ==
    {"datetime", "copy", "forms", "admin", "BLANK_CHOICE_DASH",
     "CallableChoiceIterator", "render_to_string", "parse_date",
     "parse_datetime", "parse_time", "force_str", "cached_property",
     "format_html", "format_html_join", "mark_safe", "Media", "FileInput",
     "widgets", "utils", "Block", "RelURLField", "AutoHeightTextWidget",
     "MiniTimeWidget", "MiniDateWidget", "MiniDateTimeWidget"}

Text_must_be_a_Model ==
    <<"'", "t", "a", "r", "g", "e", "t", "_", "m", "o", "d", "e", "l", "'",
      " ", "m", "u", "s", "t", " ", "b", "e", " ", "a", " ", "M", "o", "d",
      "e", "l">>

\* what is passed as target_model: model classes, other classes, no class
ModelClasses == {<<"class", "Author", TRUE>>, <<"class", "Book", TRUE>>}
OtherClasses == {<<"class", "int", FALSE>>, <<"class", "object", FALSE>>}
NoClasses == {None, Str(Text_A), IntV(1)}
TargetModels == ModelClasses \cup OtherClasses \cup NoClasses

\* ModelChoiceBlockBase.__init__ after super().__init__(): the arguments of
\* issubclass are evaluated first, and the global Model is looked up
ModelChoiceBlockBase_init(target_model, to_field_name, required) ==
    IF "Model" \notin field_block_globals
        THEN Raise("NameError", <<"M", "o", "d", "e", "l">>)
    ELSE IF Tag(target_model) # "class" THEN Raise("TypeError", None)
    ELSE IF target_model[3]
        THEN Raise("AttributeError", Text_must_be_a_Model)
    ELSE Raise("AttributeError", <<"o", "b", "j", "e", "c", "t", "s">>)

InitConstruct ==
    /\ InitCommon
    /\ block = None
    /\ \E cls \in {"ModelChoiceBlock", "ModelMultipleChoiceBlock"},
          target_model \in TargetModels,
          to_field_name \in {None, Str(<<"p", "k">>), Str(Text_x)},
          required \in BOOLEAN :
          arg = <<"construct", cls, target_model, to_field_name, required>>

\* ModelChoiceBlock(target_model, ...) or ModelMultipleChoiceBlock(...):
\* both inherit the constructor
DoConstructReferenceBlock ==
    /\ Tag(arg) = "construct"
    /\ Call("construct_reference",
            ModelChoiceBlockBase_init(arg[3], arg[4], arg[5]))

NextConstruct == DoConstructReferenceBlock

SpecConstruct == InitConstruct /\ [][NextConstruct]_vars

\* C30: the construction succeeds when target_model is a model class, and
\* fails with "'target_model' must be a Model" exactly when it is not.
C30_TargetModelMustBeModel ==
    op = "construct_reference" =>
        /\ arg[3] \in ModelClasses => IsOk(res)
        /\ arg[3] \notin ModelClasses <=>
              (IsRaise(res, "AttributeError") /\ res[3] = Text_must_be_a_Model)

====
